---------------------------- MODULE Spec2Model ----------------------------
(***************************************************************************)
(* A model of geonode/geoserver/helpers.py: the catalog reconciliation     *)
(* gs_slurp, the attribute synchronisation set_attributes and the cascade  *)
(* deleter cascading_delete.                                               *)
(*                                                                         *)
(* Python values are encoded as follows.  None is the string "<None>".     *)
(* The boolean True is the string "True", the boolean False the string     *)
(* "False"; the strings "true" and "false" are themselves.  Names that the *)
(* code searches or lower-cases (resource names, field names, type names)  *)
(* are sequences of one-character strings; the other names are strings.    *)
(* An exception raised by a collaborator (the record store, the catalog    *)
(* client, the HTTP client, the import of a module) is an input of the     *)
(* step that makes the call.                                               *)
(***************************************************************************)
EXTENDS Integers, Sequences, FiniteSets, TLC

None == "<None>"

(* None where a name that is a sequence of characters is expected *)
NoField == <<None>>

(* Bounds of the model. *)
MaxRes == 2
MaxLocal == 2
MaxFilterLocal == 1
MaxRuns == 2

VARIABLES
    catalog,                      \* the resources of the external catalog
    collaborators_fail,           \* calls on the record store can raise
    opts,                         \* the keyword arguments of gs_slurp
    layer_objects,                \* Layer.objects: the rows, in insertion order
    attribute_objects,            \* Attribute.objects: a set of rows
    initial_layers,               \* Layer.objects before the first run
    pc,                           \* the position of gs_slurp
    resources,                    \* gs_slurp: resources
    i,                            \* gs_slurp: index of the next item of a loop
    store,                        \* gs_slurp: store
    workspace_for_delete_compare, \* gs_slurp: workspace_for_delete_compare
    resources_for_delete_compare, \* gs_slurp: resources_for_delete_compare
    deleted_layers,               \* gs_slurp: deleted_layers
    output,                       \* gs_slurp: output
    pre_delete_connected,         \* pre_delete has geoserver_pre_delete connected
    catalog_touched,              \* geoserver_pre_delete ran during a delete
    history,                      \* the outputs of the runs that returned
    request,                      \* cascading_delete: what the call finds in the catalog
    cd_pc,                        \* the position of cascading_delete
    styles,                       \* cascading_delete: styles
    s_index,                      \* cascading_delete: index of s in styles
    cat_calls,                    \* the requests made on the catalog and on PostGIS
    last_call,                    \* the last call of set_attributes
    aggregable_call,              \* the last call of is_layer_attribute_aggregable
    style_contexts,               \* the items taken from _style_contexts so far
    sld_log,                      \* the items get_sld_for took, in order
    sld,                          \* the last call of get_sld_for
    fx_request,                   \* fixup_style: the style argument and the layers found
    fx_pc,                        \* the position of fixup_style
    gs_layers,                    \* the layer objects of the resource in the catalog
    style,                        \* fixup_style: style
    lyr_index,                    \* fixup_style: index of lyr in layers
    created_styles                \* the cat.create_style calls, in order

slurp_vars == <<catalog, collaborators_fail, opts, initial_layers, pc, resources, i,
                store, workspace_for_delete_compare, resources_for_delete_compare,
                deleted_layers, output, pre_delete_connected, catalog_touched,
                history>>

store_vars == <<layer_objects, attribute_objects>>

cascade_vars == <<request, cd_pc, styles, s_index, cat_calls>>

attr_vars == <<last_call>>

style_vars == <<style_contexts, sld_log, sld>>

fixup_vars == <<fx_request, fx_pc, gs_layers, style, lyr_index, created_styles>>

helper_vars == <<aggregable_call, style_vars, fixup_vars>>

vars == <<slurp_vars, store_vars, cascade_vars, attr_vars, helper_vars>>

----------------------------------------------------------------------------
(* Sequences. *)

RECURSIVE SelectSeqBy(_, _)
(* [k for k in s if Test(k)], with the test given as a set of accepted items *)
SelectSeqBy(s, accepted) ==
    IF s = <<>> THEN <<>>
    ELSE IF Head(s) \in accepted
         THEN <<Head(s)>> \o SelectSeqBy(Tail(s), accepted)
         ELSE SelectSeqBy(Tail(s), accepted)

Range(s) == {s[k] : k \in 1..Len(s)}

BoundedSeq(S, n) == UNION {[1..k -> S] : k \in 0..n}

(* Python's "sub in s" on strings *)
Contains(sub, s) ==
    \E k \in 0..(Len(s) - Len(sub)) : SubSeq(s, k + 1, k + Len(sub)) = sub

----------------------------------------------------------------------------
(* The external catalog: workspaces, stores and resources. *)

Workspaces == {"w1", "w2"}

Stores ==
    {[name |-> "s1", workspace |-> "w1", resource_type |-> "dataStore"],
     [name |-> "s2", workspace |-> "w1", resource_type |-> "coverageStore"],
     [name |-> "s3", workspace |-> "w2", resource_type |-> "dataStore"]}

NoStore == [name |-> None, workspace |-> None, resource_type |-> None]

ResourceNames == {<<"a", "b">>, <<"b">>}

(* The enabled and advertised flags of a resource *)
BasicFlags == {[enabled |-> "true", advertised |-> None]}

FilterFlags ==
    BasicFlags \cup
    {[enabled |-> "false", advertised |-> "True"],
     [enabled |-> "true", advertised |-> "False"]}

(* Every value the two flags are compared with, on enabled resources, *)
(* and the two ways a resource is not enabled                         *)
StatusFlags ==
    {[enabled |-> "true", advertised |-> a] :
        a \in {None, "true", "True", "False", "false"}}
    \cup {[enabled |-> "false", advertised |-> "True"],
          [enabled |-> None, advertised |-> "true"]}

ResourcePool(stores, flags) ==
    {[name |-> n, store |-> s, enabled |-> f.enabled, advertised |-> f.advertised] :
        n \in ResourceNames, s \in stores, f \in flags}

----------------------------------------------------------------------------
(* gs_slurp: the resource set and its filters. *)

get_workspace(name) == IF name \in Workspaces THEN name ELSE None

(* cat.get_store(name, workspace): the stores answering to the name *)
StoresNamed(name, workspace) ==
    {s \in Stores : s.name = name /\ (workspace = None \/ s.workspace = workspace)}

(* cat.get_resources(store=..., workspace=...) *)
get_resources(cat, st, workspace) ==
    SelectSeqBy(cat, {k \in Range(cat) :
        /\ (st = NoStore \/ k.store = st)
        /\ (workspace = None \/ k.store.workspace = workspace)})

(* The resource set of the workspace and store options; a workspace that  *)
(* does not exist raises, and so does a store the catalog cannot resolve. *)
ResolveResources(cat, workspace, store_name) ==
    LET failed == [raised |-> TRUE, resources |-> <<>>,
                   workspace |-> None, store |-> NoStore]
        found == StoresNamed(store_name, workspace)
        st == CHOOSE s \in found : TRUE
    IN  IF workspace # None
        THEN IF get_workspace(workspace) # None
             THEN IF store_name # None
                  THEN IF Cardinality(found) # 1 THEN failed
                       ELSE [raised |-> FALSE,
                             resources |-> get_resources(cat, st, None),
                             workspace |-> workspace, store |-> st]
                  ELSE [raised |-> FALSE,
                        resources |-> get_resources(cat, NoStore, workspace),
                        workspace |-> workspace, store |-> NoStore]
             ELSE failed
        ELSE IF store_name # None
             THEN IF Cardinality(found) # 1 THEN failed
                  ELSE [raised |-> FALSE,
                        resources |-> get_resources(cat, st, None),
                        workspace |-> None, store |-> st]
             ELSE [raised |-> FALSE,
                   resources |-> get_resources(cat, NoStore, None),
                   workspace |-> None, store |-> NoStore]

(* [k for k in rs if k.enabled == "true"] *)
EnabledOnly(rs) == SelectSeqBy(rs, {k \in Range(rs) : k.enabled = "true"})

(* An advertised test that takes an absent flag for unadvertised *)
AdvertisedOnlyWhenSet(rs) ==
    SelectSeqBy(rs, {k \in Range(rs) : k.advertised \in {"true", "True"}})

(* [k for k in rs if k.advertised == "true" or k.advertised == True *)
(*  or k.advertised is None]                                        *)
AdvertisedOnly(rs) ==
    SelectSeqBy(rs, {k \in Range(rs) : k.advertised \in {"true", "True", None}})

(* A name filter that asks for the name to be equal to the filter *)
NameFilterExact(rs, filter) ==
    IF filter # <<>>
    THEN SelectSeqBy(rs, {k \in Range(rs) : k.name = filter})
    ELSE rs

(* [k for k in rs if filter in k.name], when filter is neither None nor "" *)
NameFilter(rs, filter) ==
    IF filter # <<>>
    THEN SelectSeqBy(rs, {k \in Range(rs) : Contains(filter, k.name)})
    ELSE rs

(* resources_for_delete_compare taken after the name filter *)
DeleteCompareAfterNameFilter(rs, skip_unadvertised) ==
    IF skip_unadvertised
    THEN AdvertisedOnly(EnabledOnly(NameFilter(rs, opts.filter)))
    ELSE EnabledOnly(NameFilter(rs, opts.filter))

(* resources_for_delete_compare *)
DeleteCompare(rs, skip_unadvertised) ==
    IF skip_unadvertised THEN AdvertisedOnly(EnabledOnly(rs)) ELSE EnabledOnly(rs)

(* resources, after the name filter and the status filters *)
Filtered(rs, filter, skip_unadvertised) ==
    IF skip_unadvertised
    THEN AdvertisedOnly(EnabledOnly(NameFilter(rs, filter)))
    ELSE EnabledOnly(NameFilter(rs, filter))

EmptyOutput ==
    [stats |-> [failed |-> 0, updated |-> 0, created |-> 0, deleted |-> 0],
     layers |-> <<>>, deleted_layers |-> <<>>]

----------------------------------------------------------------------------
(* set_attributes and its helpers. *)

UpperCase == <<"A", "B", "C", "D", "E", "F", "G", "H", "I", "J", "K", "L", "M",
               "N", "O", "P", "Q", "R", "S", "T", "U", "V", "W", "X", "Y", "Z">>

LowerCase == <<"a", "b", "c", "d", "e", "f", "g", "h", "i", "j", "k", "l", "m",
               "n", "o", "p", "q", "r", "s", "t", "u", "v", "w", "x", "y", "z">>

(* The characters outside ASCII that unicode.lower() of Python 2.7 maps *)
(* to another character (the simple lower-case mappings of the Unicode  *)
(* 5.2 character database), a character outside ASCII being written    *)
(* U+xxxx.  A name is the sequence of the code units of the unicode     *)
(* object: a character outside the Basic Multilingual Plane is one code *)
(* unit where the build stores code points and two surrogates, which    *)
(* lower() leaves, where it stores 16-bit units.                        *)
UpperOutsideASCII ==
    <<"U+00C0", "U+00C1", "U+00C2", "U+00C3", "U+00C4", "U+00C5", "U+00C6",
      "U+00C7", "U+00C8", "U+00C9", "U+00CA", "U+00CB", "U+00CC", "U+00CD",
      "U+00CE", "U+00CF", "U+00D0", "U+00D1", "U+00D2", "U+00D3", "U+00D4",
      "U+00D5", "U+00D6", "U+00D8", "U+00D9", "U+00DA", "U+00DB", "U+00DC",
      "U+00DD", "U+00DE", "U+0100", "U+0102", "U+0104", "U+0106", "U+0108",
      "U+010A", "U+010C", "U+010E", "U+0110", "U+0112", "U+0114", "U+0116",
      "U+0118", "U+011A", "U+011C", "U+011E", "U+0120", "U+0122", "U+0124",
      "U+0126", "U+0128", "U+012A", "U+012C", "U+012E", "U+0130", "U+0132",
      "U+0134", "U+0136", "U+0139", "U+013B", "U+013D", "U+013F", "U+0141",
      "U+0143", "U+0145", "U+0147", "U+014A", "U+014C", "U+014E", "U+0150",
      "U+0152", "U+0154", "U+0156", "U+0158", "U+015A", "U+015C", "U+015E",
      "U+0160", "U+0162", "U+0164", "U+0166", "U+0168", "U+016A", "U+016C",
      "U+016E", "U+0170", "U+0172", "U+0174", "U+0176", "U+0178", "U+0179",
      "U+017B", "U+017D", "U+0181", "U+0182", "U+0184", "U+0186", "U+0187",
      "U+0189", "U+018A", "U+018B", "U+018E", "U+018F", "U+0190", "U+0191",
      "U+0193", "U+0194", "U+0196", "U+0197", "U+0198", "U+019C", "U+019D",
      "U+019F", "U+01A0", "U+01A2", "U+01A4", "U+01A6", "U+01A7", "U+01A9",
      "U+01AC", "U+01AE", "U+01AF", "U+01B1", "U+01B2", "U+01B3", "U+01B5",
      "U+01B7", "U+01B8", "U+01BC", "U+01C4", "U+01C5", "U+01C7", "U+01C8",
      "U+01CA", "U+01CB", "U+01CD", "U+01CF", "U+01D1", "U+01D3", "U+01D5",
      "U+01D7", "U+01D9", "U+01DB", "U+01DE", "U+01E0", "U+01E2", "U+01E4",
      "U+01E6", "U+01E8", "U+01EA", "U+01EC", "U+01EE", "U+01F1", "U+01F2",
      "U+01F4", "U+01F6", "U+01F7", "U+01F8", "U+01FA", "U+01FC", "U+01FE",
      "U+0200", "U+0202", "U+0204", "U+0206", "U+0208", "U+020A", "U+020C",
      "U+020E", "U+0210", "U+0212", "U+0214", "U+0216", "U+0218", "U+021A",
      "U+021C", "U+021E", "U+0220", "U+0222", "U+0224", "U+0226", "U+0228",
      "U+022A", "U+022C", "U+022E", "U+0230", "U+0232", "U+023A", "U+023B",
      "U+023D", "U+023E", "U+0241", "U+0243", "U+0244", "U+0245", "U+0246",
      "U+0248", "U+024A", "U+024C", "U+024E", "U+0370", "U+0372", "U+0376",
      "U+0386", "U+0388", "U+0389", "U+038A", "U+038C", "U+038E", "U+038F",
      "U+0391", "U+0392", "U+0393", "U+0394", "U+0395", "U+0396", "U+0397",
      "U+0398", "U+0399", "U+039A", "U+039B", "U+039C", "U+039D", "U+039E",
      "U+039F", "U+03A0", "U+03A1", "U+03A3", "U+03A4", "U+03A5", "U+03A6",
      "U+03A7", "U+03A8", "U+03A9", "U+03AA", "U+03AB", "U+03CF", "U+03D8",
      "U+03DA", "U+03DC", "U+03DE", "U+03E0", "U+03E2", "U+03E4", "U+03E6",
      "U+03E8", "U+03EA", "U+03EC", "U+03EE", "U+03F4", "U+03F7", "U+03F9",
      "U+03FA", "U+03FD", "U+03FE", "U+03FF", "U+0400", "U+0401", "U+0402",
      "U+0403", "U+0404", "U+0405", "U+0406", "U+0407", "U+0408", "U+0409",
      "U+040A", "U+040B", "U+040C", "U+040D", "U+040E", "U+040F", "U+0410",
      "U+0411", "U+0412", "U+0413", "U+0414", "U+0415", "U+0416", "U+0417",
      "U+0418", "U+0419", "U+041A", "U+041B", "U+041C", "U+041D", "U+041E",
      "U+041F", "U+0420", "U+0421", "U+0422", "U+0423", "U+0424", "U+0425",
      "U+0426", "U+0427", "U+0428", "U+0429", "U+042A", "U+042B", "U+042C",
      "U+042D", "U+042E", "U+042F", "U+0460", "U+0462", "U+0464", "U+0466",
      "U+0468", "U+046A", "U+046C", "U+046E", "U+0470", "U+0472", "U+0474",
      "U+0476", "U+0478", "U+047A", "U+047C", "U+047E", "U+0480", "U+048A",
      "U+048C", "U+048E", "U+0490", "U+0492", "U+0494", "U+0496", "U+0498",
      "U+049A", "U+049C", "U+049E", "U+04A0", "U+04A2", "U+04A4", "U+04A6",
      "U+04A8", "U+04AA", "U+04AC", "U+04AE", "U+04B0", "U+04B2", "U+04B4",
      "U+04B6", "U+04B8", "U+04BA", "U+04BC", "U+04BE", "U+04C0", "U+04C1",
      "U+04C3", "U+04C5", "U+04C7", "U+04C9", "U+04CB", "U+04CD", "U+04D0",
      "U+04D2", "U+04D4", "U+04D6", "U+04D8", "U+04DA", "U+04DC", "U+04DE",
      "U+04E0", "U+04E2", "U+04E4", "U+04E6", "U+04E8", "U+04EA", "U+04EC",
      "U+04EE", "U+04F0", "U+04F2", "U+04F4", "U+04F6", "U+04F8", "U+04FA",
      "U+04FC", "U+04FE", "U+0500", "U+0502", "U+0504", "U+0506", "U+0508",
      "U+050A", "U+050C", "U+050E", "U+0510", "U+0512", "U+0514", "U+0516",
      "U+0518", "U+051A", "U+051C", "U+051E", "U+0520", "U+0522", "U+0524",
      "U+0531", "U+0532", "U+0533", "U+0534", "U+0535", "U+0536", "U+0537",
      "U+0538", "U+0539", "U+053A", "U+053B", "U+053C", "U+053D", "U+053E",
      "U+053F", "U+0540", "U+0541", "U+0542", "U+0543", "U+0544", "U+0545",
      "U+0546", "U+0547", "U+0548", "U+0549", "U+054A", "U+054B", "U+054C",
      "U+054D", "U+054E", "U+054F", "U+0550", "U+0551", "U+0552", "U+0553",
      "U+0554", "U+0555", "U+0556", "U+10A0", "U+10A1", "U+10A2", "U+10A3",
      "U+10A4", "U+10A5", "U+10A6", "U+10A7", "U+10A8", "U+10A9", "U+10AA",
      "U+10AB", "U+10AC", "U+10AD", "U+10AE", "U+10AF", "U+10B0", "U+10B1",
      "U+10B2", "U+10B3", "U+10B4", "U+10B5", "U+10B6", "U+10B7", "U+10B8",
      "U+10B9", "U+10BA", "U+10BB", "U+10BC", "U+10BD", "U+10BE", "U+10BF",
      "U+10C0", "U+10C1", "U+10C2", "U+10C3", "U+10C4", "U+10C5", "U+1E00",
      "U+1E02", "U+1E04", "U+1E06", "U+1E08", "U+1E0A", "U+1E0C", "U+1E0E",
      "U+1E10", "U+1E12", "U+1E14", "U+1E16", "U+1E18", "U+1E1A", "U+1E1C",
      "U+1E1E", "U+1E20", "U+1E22", "U+1E24", "U+1E26", "U+1E28", "U+1E2A",
      "U+1E2C", "U+1E2E", "U+1E30", "U+1E32", "U+1E34", "U+1E36", "U+1E38",
      "U+1E3A", "U+1E3C", "U+1E3E", "U+1E40", "U+1E42", "U+1E44", "U+1E46",
      "U+1E48", "U+1E4A", "U+1E4C", "U+1E4E", "U+1E50", "U+1E52", "U+1E54",
      "U+1E56", "U+1E58", "U+1E5A", "U+1E5C", "U+1E5E", "U+1E60", "U+1E62",
      "U+1E64", "U+1E66", "U+1E68", "U+1E6A", "U+1E6C", "U+1E6E", "U+1E70",
      "U+1E72", "U+1E74", "U+1E76", "U+1E78", "U+1E7A", "U+1E7C", "U+1E7E",
      "U+1E80", "U+1E82", "U+1E84", "U+1E86", "U+1E88", "U+1E8A", "U+1E8C",
      "U+1E8E", "U+1E90", "U+1E92", "U+1E94", "U+1E9E", "U+1EA0", "U+1EA2",
      "U+1EA4", "U+1EA6", "U+1EA8", "U+1EAA", "U+1EAC", "U+1EAE", "U+1EB0",
      "U+1EB2", "U+1EB4", "U+1EB6", "U+1EB8", "U+1EBA", "U+1EBC", "U+1EBE",
      "U+1EC0", "U+1EC2", "U+1EC4", "U+1EC6", "U+1EC8", "U+1ECA", "U+1ECC",
      "U+1ECE", "U+1ED0", "U+1ED2", "U+1ED4", "U+1ED6", "U+1ED8", "U+1EDA",
      "U+1EDC", "U+1EDE", "U+1EE0", "U+1EE2", "U+1EE4", "U+1EE6", "U+1EE8",
      "U+1EEA", "U+1EEC", "U+1EEE", "U+1EF0", "U+1EF2", "U+1EF4", "U+1EF6",
      "U+1EF8", "U+1EFA", "U+1EFC", "U+1EFE", "U+1F08", "U+1F09", "U+1F0A",
      "U+1F0B", "U+1F0C", "U+1F0D", "U+1F0E", "U+1F0F", "U+1F18", "U+1F19",
      "U+1F1A", "U+1F1B", "U+1F1C", "U+1F1D", "U+1F28", "U+1F29", "U+1F2A",
      "U+1F2B", "U+1F2C", "U+1F2D", "U+1F2E", "U+1F2F", "U+1F38", "U+1F39",
      "U+1F3A", "U+1F3B", "U+1F3C", "U+1F3D", "U+1F3E", "U+1F3F", "U+1F48",
      "U+1F49", "U+1F4A", "U+1F4B", "U+1F4C", "U+1F4D", "U+1F59", "U+1F5B",
      "U+1F5D", "U+1F5F", "U+1F68", "U+1F69", "U+1F6A", "U+1F6B", "U+1F6C",
      "U+1F6D", "U+1F6E", "U+1F6F", "U+1F88", "U+1F89", "U+1F8A", "U+1F8B",
      "U+1F8C", "U+1F8D", "U+1F8E", "U+1F8F", "U+1F98", "U+1F99", "U+1F9A",
      "U+1F9B", "U+1F9C", "U+1F9D", "U+1F9E", "U+1F9F", "U+1FA8", "U+1FA9",
      "U+1FAA", "U+1FAB", "U+1FAC", "U+1FAD", "U+1FAE", "U+1FAF", "U+1FB8",
      "U+1FB9", "U+1FBA", "U+1FBB", "U+1FBC", "U+1FC8", "U+1FC9", "U+1FCA",
      "U+1FCB", "U+1FCC", "U+1FD8", "U+1FD9", "U+1FDA", "U+1FDB", "U+1FE8",
      "U+1FE9", "U+1FEA", "U+1FEB", "U+1FEC", "U+1FF8", "U+1FF9", "U+1FFA",
      "U+1FFB", "U+1FFC", "U+2126", "U+212A", "U+212B", "U+2132", "U+2160",
      "U+2161", "U+2162", "U+2163", "U+2164", "U+2165", "U+2166", "U+2167",
      "U+2168", "U+2169", "U+216A", "U+216B", "U+216C", "U+216D", "U+216E",
      "U+216F", "U+2183", "U+24B6", "U+24B7", "U+24B8", "U+24B9", "U+24BA",
      "U+24BB", "U+24BC", "U+24BD", "U+24BE", "U+24BF", "U+24C0", "U+24C1",
      "U+24C2", "U+24C3", "U+24C4", "U+24C5", "U+24C6", "U+24C7", "U+24C8",
      "U+24C9", "U+24CA", "U+24CB", "U+24CC", "U+24CD", "U+24CE", "U+24CF",
      "U+2C00", "U+2C01", "U+2C02", "U+2C03", "U+2C04", "U+2C05", "U+2C06",
      "U+2C07", "U+2C08", "U+2C09", "U+2C0A", "U+2C0B", "U+2C0C", "U+2C0D",
      "U+2C0E", "U+2C0F", "U+2C10", "U+2C11", "U+2C12", "U+2C13", "U+2C14",
      "U+2C15", "U+2C16", "U+2C17", "U+2C18", "U+2C19", "U+2C1A", "U+2C1B",
      "U+2C1C", "U+2C1D", "U+2C1E", "U+2C1F", "U+2C20", "U+2C21", "U+2C22",
      "U+2C23", "U+2C24", "U+2C25", "U+2C26", "U+2C27", "U+2C28", "U+2C29",
      "U+2C2A", "U+2C2B", "U+2C2C", "U+2C2D", "U+2C2E", "U+2C60", "U+2C62",
      "U+2C63", "U+2C64", "U+2C67", "U+2C69", "U+2C6B", "U+2C6D", "U+2C6E",
      "U+2C6F", "U+2C70", "U+2C72", "U+2C75", "U+2C7E", "U+2C7F", "U+2C80",
      "U+2C82", "U+2C84", "U+2C86", "U+2C88", "U+2C8A", "U+2C8C", "U+2C8E",
      "U+2C90", "U+2C92", "U+2C94", "U+2C96", "U+2C98", "U+2C9A", "U+2C9C",
      "U+2C9E", "U+2CA0", "U+2CA2", "U+2CA4", "U+2CA6", "U+2CA8", "U+2CAA",
      "U+2CAC", "U+2CAE", "U+2CB0", "U+2CB2", "U+2CB4", "U+2CB6", "U+2CB8",
      "U+2CBA", "U+2CBC", "U+2CBE", "U+2CC0", "U+2CC2", "U+2CC4", "U+2CC6",
      "U+2CC8", "U+2CCA", "U+2CCC", "U+2CCE", "U+2CD0", "U+2CD2", "U+2CD4",
      "U+2CD6", "U+2CD8", "U+2CDA", "U+2CDC", "U+2CDE", "U+2CE0", "U+2CE2",
      "U+2CEB", "U+2CED", "U+A640", "U+A642", "U+A644", "U+A646", "U+A648",
      "U+A64A", "U+A64C", "U+A64E", "U+A650", "U+A652", "U+A654", "U+A656",
      "U+A658", "U+A65A", "U+A65C", "U+A65E", "U+A662", "U+A664", "U+A666",
      "U+A668", "U+A66A", "U+A66C", "U+A680", "U+A682", "U+A684", "U+A686",
      "U+A688", "U+A68A", "U+A68C", "U+A68E", "U+A690", "U+A692", "U+A694",
      "U+A696", "U+A722", "U+A724", "U+A726", "U+A728", "U+A72A", "U+A72C",
      "U+A72E", "U+A732", "U+A734", "U+A736", "U+A738", "U+A73A", "U+A73C",
      "U+A73E", "U+A740", "U+A742", "U+A744", "U+A746", "U+A748", "U+A74A",
      "U+A74C", "U+A74E", "U+A750", "U+A752", "U+A754", "U+A756", "U+A758",
      "U+A75A", "U+A75C", "U+A75E", "U+A760", "U+A762", "U+A764", "U+A766",
      "U+A768", "U+A76A", "U+A76C", "U+A76E", "U+A779", "U+A77B", "U+A77D",
      "U+A77E", "U+A780", "U+A782", "U+A784", "U+A786", "U+A78B", "U+FF21",
      "U+FF22", "U+FF23", "U+FF24", "U+FF25", "U+FF26", "U+FF27", "U+FF28",
      "U+FF29", "U+FF2A", "U+FF2B", "U+FF2C", "U+FF2D", "U+FF2E", "U+FF2F",
      "U+FF30", "U+FF31", "U+FF32", "U+FF33", "U+FF34", "U+FF35", "U+FF36",
      "U+FF37", "U+FF38", "U+FF39", "U+FF3A", "U+10400", "U+10401",
      "U+10402", "U+10403", "U+10404", "U+10405", "U+10406", "U+10407",
      "U+10408", "U+10409", "U+1040A", "U+1040B", "U+1040C", "U+1040D",
      "U+1040E", "U+1040F", "U+10410", "U+10411", "U+10412", "U+10413",
      "U+10414", "U+10415", "U+10416", "U+10417", "U+10418", "U+10419",
      "U+1041A", "U+1041B", "U+1041C", "U+1041D", "U+1041E", "U+1041F",
      "U+10420", "U+10421", "U+10422", "U+10423", "U+10424", "U+10425",
      "U+10426", "U+10427">>

(* The character lower() gives for each, in the same order; U+0130 and *)
(* U+212A are the two whose lower-case letter is an ASCII letter       *)
LowerOutsideASCII ==
    <<"U+00E0", "U+00E1", "U+00E2", "U+00E3", "U+00E4", "U+00E5", "U+00E6",
      "U+00E7", "U+00E8", "U+00E9", "U+00EA", "U+00EB", "U+00EC", "U+00ED",
      "U+00EE", "U+00EF", "U+00F0", "U+00F1", "U+00F2", "U+00F3", "U+00F4",
      "U+00F5", "U+00F6", "U+00F8", "U+00F9", "U+00FA", "U+00FB", "U+00FC",
      "U+00FD", "U+00FE", "U+0101", "U+0103", "U+0105", "U+0107", "U+0109",
      "U+010B", "U+010D", "U+010F", "U+0111", "U+0113", "U+0115", "U+0117",
      "U+0119", "U+011B", "U+011D", "U+011F", "U+0121", "U+0123", "U+0125",
      "U+0127", "U+0129", "U+012B", "U+012D", "U+012F", "i", "U+0133",
      "U+0135", "U+0137", "U+013A", "U+013C", "U+013E", "U+0140", "U+0142",
      "U+0144", "U+0146", "U+0148", "U+014B", "U+014D", "U+014F", "U+0151",
      "U+0153", "U+0155", "U+0157", "U+0159", "U+015B", "U+015D", "U+015F",
      "U+0161", "U+0163", "U+0165", "U+0167", "U+0169", "U+016B", "U+016D",
      "U+016F", "U+0171", "U+0173", "U+0175", "U+0177", "U+00FF", "U+017A",
      "U+017C", "U+017E", "U+0253", "U+0183", "U+0185", "U+0254", "U+0188",
      "U+0256", "U+0257", "U+018C", "U+01DD", "U+0259", "U+025B", "U+0192",
      "U+0260", "U+0263", "U+0269", "U+0268", "U+0199", "U+026F", "U+0272",
      "U+0275", "U+01A1", "U+01A3", "U+01A5", "U+0280", "U+01A8", "U+0283",
      "U+01AD", "U+0288", "U+01B0", "U+028A", "U+028B", "U+01B4", "U+01B6",
      "U+0292", "U+01B9", "U+01BD", "U+01C6", "U+01C6", "U+01C9", "U+01C9",
      "U+01CC", "U+01CC", "U+01CE", "U+01D0", "U+01D2", "U+01D4", "U+01D6",
      "U+01D8", "U+01DA", "U+01DC", "U+01DF", "U+01E1", "U+01E3", "U+01E5",
      "U+01E7", "U+01E9", "U+01EB", "U+01ED", "U+01EF", "U+01F3", "U+01F3",
      "U+01F5", "U+0195", "U+01BF", "U+01F9", "U+01FB", "U+01FD", "U+01FF",
      "U+0201", "U+0203", "U+0205", "U+0207", "U+0209", "U+020B", "U+020D",
      "U+020F", "U+0211", "U+0213", "U+0215", "U+0217", "U+0219", "U+021B",
      "U+021D", "U+021F", "U+019E", "U+0223", "U+0225", "U+0227", "U+0229",
      "U+022B", "U+022D", "U+022F", "U+0231", "U+0233", "U+2C65", "U+023C",
      "U+019A", "U+2C66", "U+0242", "U+0180", "U+0289", "U+028C", "U+0247",
      "U+0249", "U+024B", "U+024D", "U+024F", "U+0371", "U+0373", "U+0377",
      "U+03AC", "U+03AD", "U+03AE", "U+03AF", "U+03CC", "U+03CD", "U+03CE",
      "U+03B1", "U+03B2", "U+03B3", "U+03B4", "U+03B5", "U+03B6", "U+03B7",
      "U+03B8", "U+03B9", "U+03BA", "U+03BB", "U+03BC", "U+03BD", "U+03BE",
      "U+03BF", "U+03C0", "U+03C1", "U+03C3", "U+03C4", "U+03C5", "U+03C6",
      "U+03C7", "U+03C8", "U+03C9", "U+03CA", "U+03CB", "U+03D7", "U+03D9",
      "U+03DB", "U+03DD", "U+03DF", "U+03E1", "U+03E3", "U+03E5", "U+03E7",
      "U+03E9", "U+03EB", "U+03ED", "U+03EF", "U+03B8", "U+03F8", "U+03F2",
      "U+03FB", "U+037B", "U+037C", "U+037D", "U+0450", "U+0451", "U+0452",
      "U+0453", "U+0454", "U+0455", "U+0456", "U+0457", "U+0458", "U+0459",
      "U+045A", "U+045B", "U+045C", "U+045D", "U+045E", "U+045F", "U+0430",
      "U+0431", "U+0432", "U+0433", "U+0434", "U+0435", "U+0436", "U+0437",
      "U+0438", "U+0439", "U+043A", "U+043B", "U+043C", "U+043D", "U+043E",
      "U+043F", "U+0440", "U+0441", "U+0442", "U+0443", "U+0444", "U+0445",
      "U+0446", "U+0447", "U+0448", "U+0449", "U+044A", "U+044B", "U+044C",
      "U+044D", "U+044E", "U+044F", "U+0461", "U+0463", "U+0465", "U+0467",
      "U+0469", "U+046B", "U+046D", "U+046F", "U+0471", "U+0473", "U+0475",
      "U+0477", "U+0479", "U+047B", "U+047D", "U+047F", "U+0481", "U+048B",
      "U+048D", "U+048F", "U+0491", "U+0493", "U+0495", "U+0497", "U+0499",
      "U+049B", "U+049D", "U+049F", "U+04A1", "U+04A3", "U+04A5", "U+04A7",
      "U+04A9", "U+04AB", "U+04AD", "U+04AF", "U+04B1", "U+04B3", "U+04B5",
      "U+04B7", "U+04B9", "U+04BB", "U+04BD", "U+04BF", "U+04CF", "U+04C2",
      "U+04C4", "U+04C6", "U+04C8", "U+04CA", "U+04CC", "U+04CE", "U+04D1",
      "U+04D3", "U+04D5", "U+04D7", "U+04D9", "U+04DB", "U+04DD", "U+04DF",
      "U+04E1", "U+04E3", "U+04E5", "U+04E7", "U+04E9", "U+04EB", "U+04ED",
      "U+04EF", "U+04F1", "U+04F3", "U+04F5", "U+04F7", "U+04F9", "U+04FB",
      "U+04FD", "U+04FF", "U+0501", "U+0503", "U+0505", "U+0507", "U+0509",
      "U+050B", "U+050D", "U+050F", "U+0511", "U+0513", "U+0515", "U+0517",
      "U+0519", "U+051B", "U+051D", "U+051F", "U+0521", "U+0523", "U+0525",
      "U+0561", "U+0562", "U+0563", "U+0564", "U+0565", "U+0566", "U+0567",
      "U+0568", "U+0569", "U+056A", "U+056B", "U+056C", "U+056D", "U+056E",
      "U+056F", "U+0570", "U+0571", "U+0572", "U+0573", "U+0574", "U+0575",
      "U+0576", "U+0577", "U+0578", "U+0579", "U+057A", "U+057B", "U+057C",
      "U+057D", "U+057E", "U+057F", "U+0580", "U+0581", "U+0582", "U+0583",
      "U+0584", "U+0585", "U+0586", "U+2D00", "U+2D01", "U+2D02", "U+2D03",
      "U+2D04", "U+2D05", "U+2D06", "U+2D07", "U+2D08", "U+2D09", "U+2D0A",
      "U+2D0B", "U+2D0C", "U+2D0D", "U+2D0E", "U+2D0F", "U+2D10", "U+2D11",
      "U+2D12", "U+2D13", "U+2D14", "U+2D15", "U+2D16", "U+2D17", "U+2D18",
      "U+2D19", "U+2D1A", "U+2D1B", "U+2D1C", "U+2D1D", "U+2D1E", "U+2D1F",
      "U+2D20", "U+2D21", "U+2D22", "U+2D23", "U+2D24", "U+2D25", "U+1E01",
      "U+1E03", "U+1E05", "U+1E07", "U+1E09", "U+1E0B", "U+1E0D", "U+1E0F",
      "U+1E11", "U+1E13", "U+1E15", "U+1E17", "U+1E19", "U+1E1B", "U+1E1D",
      "U+1E1F", "U+1E21", "U+1E23", "U+1E25", "U+1E27", "U+1E29", "U+1E2B",
      "U+1E2D", "U+1E2F", "U+1E31", "U+1E33", "U+1E35", "U+1E37", "U+1E39",
      "U+1E3B", "U+1E3D", "U+1E3F", "U+1E41", "U+1E43", "U+1E45", "U+1E47",
      "U+1E49", "U+1E4B", "U+1E4D", "U+1E4F", "U+1E51", "U+1E53", "U+1E55",
      "U+1E57", "U+1E59", "U+1E5B", "U+1E5D", "U+1E5F", "U+1E61", "U+1E63",
      "U+1E65", "U+1E67", "U+1E69", "U+1E6B", "U+1E6D", "U+1E6F", "U+1E71",
      "U+1E73", "U+1E75", "U+1E77", "U+1E79", "U+1E7B", "U+1E7D", "U+1E7F",
      "U+1E81", "U+1E83", "U+1E85", "U+1E87", "U+1E89", "U+1E8B", "U+1E8D",
      "U+1E8F", "U+1E91", "U+1E93", "U+1E95", "U+00DF", "U+1EA1", "U+1EA3",
      "U+1EA5", "U+1EA7", "U+1EA9", "U+1EAB", "U+1EAD", "U+1EAF", "U+1EB1",
      "U+1EB3", "U+1EB5", "U+1EB7", "U+1EB9", "U+1EBB", "U+1EBD", "U+1EBF",
      "U+1EC1", "U+1EC3", "U+1EC5", "U+1EC7", "U+1EC9", "U+1ECB", "U+1ECD",
      "U+1ECF", "U+1ED1", "U+1ED3", "U+1ED5", "U+1ED7", "U+1ED9", "U+1EDB",
      "U+1EDD", "U+1EDF", "U+1EE1", "U+1EE3", "U+1EE5", "U+1EE7", "U+1EE9",
      "U+1EEB", "U+1EED", "U+1EEF", "U+1EF1", "U+1EF3", "U+1EF5", "U+1EF7",
      "U+1EF9", "U+1EFB", "U+1EFD", "U+1EFF", "U+1F00", "U+1F01", "U+1F02",
      "U+1F03", "U+1F04", "U+1F05", "U+1F06", "U+1F07", "U+1F10", "U+1F11",
      "U+1F12", "U+1F13", "U+1F14", "U+1F15", "U+1F20", "U+1F21", "U+1F22",
      "U+1F23", "U+1F24", "U+1F25", "U+1F26", "U+1F27", "U+1F30", "U+1F31",
      "U+1F32", "U+1F33", "U+1F34", "U+1F35", "U+1F36", "U+1F37", "U+1F40",
      "U+1F41", "U+1F42", "U+1F43", "U+1F44", "U+1F45", "U+1F51", "U+1F53",
      "U+1F55", "U+1F57", "U+1F60", "U+1F61", "U+1F62", "U+1F63", "U+1F64",
      "U+1F65", "U+1F66", "U+1F67", "U+1F80", "U+1F81", "U+1F82", "U+1F83",
      "U+1F84", "U+1F85", "U+1F86", "U+1F87", "U+1F90", "U+1F91", "U+1F92",
      "U+1F93", "U+1F94", "U+1F95", "U+1F96", "U+1F97", "U+1FA0", "U+1FA1",
      "U+1FA2", "U+1FA3", "U+1FA4", "U+1FA5", "U+1FA6", "U+1FA7", "U+1FB0",
      "U+1FB1", "U+1F70", "U+1F71", "U+1FB3", "U+1F72", "U+1F73", "U+1F74",
      "U+1F75", "U+1FC3", "U+1FD0", "U+1FD1", "U+1F76", "U+1F77", "U+1FE0",
      "U+1FE1", "U+1F7A", "U+1F7B", "U+1FE5", "U+1F78", "U+1F79", "U+1F7C",
      "U+1F7D", "U+1FF3", "U+03C9", "k", "U+00E5", "U+214E", "U+2170",
      "U+2171", "U+2172", "U+2173", "U+2174", "U+2175", "U+2176", "U+2177",
      "U+2178", "U+2179", "U+217A", "U+217B", "U+217C", "U+217D", "U+217E",
      "U+217F", "U+2184", "U+24D0", "U+24D1", "U+24D2", "U+24D3", "U+24D4",
      "U+24D5", "U+24D6", "U+24D7", "U+24D8", "U+24D9", "U+24DA", "U+24DB",
      "U+24DC", "U+24DD", "U+24DE", "U+24DF", "U+24E0", "U+24E1", "U+24E2",
      "U+24E3", "U+24E4", "U+24E5", "U+24E6", "U+24E7", "U+24E8", "U+24E9",
      "U+2C30", "U+2C31", "U+2C32", "U+2C33", "U+2C34", "U+2C35", "U+2C36",
      "U+2C37", "U+2C38", "U+2C39", "U+2C3A", "U+2C3B", "U+2C3C", "U+2C3D",
      "U+2C3E", "U+2C3F", "U+2C40", "U+2C41", "U+2C42", "U+2C43", "U+2C44",
      "U+2C45", "U+2C46", "U+2C47", "U+2C48", "U+2C49", "U+2C4A", "U+2C4B",
      "U+2C4C", "U+2C4D", "U+2C4E", "U+2C4F", "U+2C50", "U+2C51", "U+2C52",
      "U+2C53", "U+2C54", "U+2C55", "U+2C56", "U+2C57", "U+2C58", "U+2C59",
      "U+2C5A", "U+2C5B", "U+2C5C", "U+2C5D", "U+2C5E", "U+2C61", "U+026B",
      "U+1D7D", "U+027D", "U+2C68", "U+2C6A", "U+2C6C", "U+0251", "U+0271",
      "U+0250", "U+0252", "U+2C73", "U+2C76", "U+023F", "U+0240", "U+2C81",
      "U+2C83", "U+2C85", "U+2C87", "U+2C89", "U+2C8B", "U+2C8D", "U+2C8F",
      "U+2C91", "U+2C93", "U+2C95", "U+2C97", "U+2C99", "U+2C9B", "U+2C9D",
      "U+2C9F", "U+2CA1", "U+2CA3", "U+2CA5", "U+2CA7", "U+2CA9", "U+2CAB",
      "U+2CAD", "U+2CAF", "U+2CB1", "U+2CB3", "U+2CB5", "U+2CB7", "U+2CB9",
      "U+2CBB", "U+2CBD", "U+2CBF", "U+2CC1", "U+2CC3", "U+2CC5", "U+2CC7",
      "U+2CC9", "U+2CCB", "U+2CCD", "U+2CCF", "U+2CD1", "U+2CD3", "U+2CD5",
      "U+2CD7", "U+2CD9", "U+2CDB", "U+2CDD", "U+2CDF", "U+2CE1", "U+2CE3",
      "U+2CEC", "U+2CEE", "U+A641", "U+A643", "U+A645", "U+A647", "U+A649",
      "U+A64B", "U+A64D", "U+A64F", "U+A651", "U+A653", "U+A655", "U+A657",
      "U+A659", "U+A65B", "U+A65D", "U+A65F", "U+A663", "U+A665", "U+A667",
      "U+A669", "U+A66B", "U+A66D", "U+A681", "U+A683", "U+A685", "U+A687",
      "U+A689", "U+A68B", "U+A68D", "U+A68F", "U+A691", "U+A693", "U+A695",
      "U+A697", "U+A723", "U+A725", "U+A727", "U+A729", "U+A72B", "U+A72D",
      "U+A72F", "U+A733", "U+A735", "U+A737", "U+A739", "U+A73B", "U+A73D",
      "U+A73F", "U+A741", "U+A743", "U+A745", "U+A747", "U+A749", "U+A74B",
      "U+A74D", "U+A74F", "U+A751", "U+A753", "U+A755", "U+A757", "U+A759",
      "U+A75B", "U+A75D", "U+A75F", "U+A761", "U+A763", "U+A765", "U+A767",
      "U+A769", "U+A76B", "U+A76D", "U+A76F", "U+A77A", "U+A77C", "U+1D79",
      "U+A77F", "U+A781", "U+A783", "U+A785", "U+A787", "U+A78C", "U+FF41",
      "U+FF42", "U+FF43", "U+FF44", "U+FF45", "U+FF46", "U+FF47", "U+FF48",
      "U+FF49", "U+FF4A", "U+FF4B", "U+FF4C", "U+FF4D", "U+FF4E", "U+FF4F",
      "U+FF50", "U+FF51", "U+FF52", "U+FF53", "U+FF54", "U+FF55", "U+FF56",
      "U+FF57", "U+FF58", "U+FF59", "U+FF5A", "U+10428", "U+10429",
      "U+1042A", "U+1042B", "U+1042C", "U+1042D", "U+1042E", "U+1042F",
      "U+10430", "U+10431", "U+10432", "U+10433", "U+10434", "U+10435",
      "U+10436", "U+10437", "U+10438", "U+10439", "U+1043A", "U+1043B",
      "U+1043C", "U+1043D", "U+1043E", "U+1043F", "U+10440", "U+10441",
      "U+10442", "U+10443", "U+10444", "U+10445", "U+10446", "U+10447",
      "U+10448", "U+10449", "U+1044A", "U+1044B", "U+1044C", "U+1044D",
      "U+1044E", "U+1044F">>

(* The lower-case letter of every upper-case letter *)
LowerOf ==
    LET upper == UpperCase \o UpperOutsideASCII
        lower == LowerCase \o LowerOutsideASCII
    IN  [ch \in Range(upper) |->
            lower[CHOOSE u \in 1..Len(upper) : upper[u] = ch]]

(* A lower() that leaves the name as it is *)
LowerSkipped(s) == s

(* field_name.lower(): each character by itself, the letters A-Z of a *)
(* str and every character of a unicode name that has a lower-case    *)
(* letter                                                             *)
Lower(s) ==
    [k \in 1..Len(s) |-> IF s[k] \in DOMAIN LowerOf THEN LowerOf[s[k]] ELSE s[k]]

(* The type names of the fields of the model *)
XsdInt == <<"x", "s", "d", ":", "i", "n", "t">>

XsdString == <<"x", "s", "d", ":", "s", "t", "r", "i", "n", "g">>

XsdBoolean == <<"x", "s", "d", ":", "b", "o", "o", "l", "e", "a", "n">>

GmlPointPropertyType ==
    <<"g", "m", "l", ":", "P", "o", "i", "n", "t", "P", "r", "o", "p", "e", "r", "t", "y", "T", "y", "p", "e">>

RasterType == <<"r", "a", "s", "t", "e", "r">>

(* geonode.layers.enumerations.LAYER_ATTRIBUTE_NUMERIC_DATA_TYPES *)
LAYER_ATTRIBUTE_NUMERIC_DATA_TYPES ==
    {<<"x", "s", "d", ":", "b", "y", "t", "e">>,
     <<"x", "s", "d", ":", "d", "e", "c", "i", "m", "a", "l">>,
     <<"x", "s", "d", ":", "d", "o", "u", "b", "l", "e">>,
     <<"x", "s", "d", ":", "i", "n", "t">>,
     <<"x", "s", "d", ":", "i", "n", "t", "e", "g", "e", "r">>,
     <<"x", "s", "d", ":", "l", "o", "n", "g">>,
     <<"x", "s", "d", ":", "n", "e", "g", "a", "t", "i", "v", "e", "I", "n", "t", "e", "g", "e", "r">>,
     <<"x", "s", "d", ":", "n", "o", "n", "N", "e", "g", "a", "t", "i", "v", "e", "I", "n", "t", "e", "g", "e", "r">>,
     <<"x", "s", "d", ":", "n", "o", "n", "P", "o", "s", "i", "t", "i", "v", "e", "I", "n", "t", "e", "g", "e", "r">>,
     <<"x", "s", "d", ":", "p", "o", "s", "i", "t", "i", "v", "e", "I", "n", "t", "e", "g", "e", "r">>,
     <<"x", "s", "d", ":", "s", "h", "o", "r", "t">>,
     <<"x", "s", "d", ":", "u", "n", "s", "i", "g", "n", "e", "d", "L", "o", "n", "g">>,
     <<"x", "s", "d", ":", "u", "n", "s", "i", "g", "n", "e", "d", "I", "n", "t">>,
     <<"x", "s", "d", ":", "u", "n", "s", "i", "g", "n", "e", "d", "S", "h", "o", "r", "t">>,
     <<"x", "s", "d", ":", "u", "n", "s", "i", "g", "n", "e", "d", "B", "y", "t", "e">>}

is_layer_attribute_aggregable(store_type, field_name, field_type) ==
    IF store_type # "dataStore" THEN FALSE
    ELSE IF field_type \notin LAYER_ATTRIBUTE_NUMERIC_DATA_TYPES THEN FALSE
    ELSE IF Lower(field_name) \in {<<"i", "d">>,
                                   <<"i", "d", "e", "n", "t", "i", "f", "i", "e", "r">>}
         THEN FALSE
    ELSE TRUE

(* Statistics that take the answer of a failed request for a result *)
get_attribute_statistics_unchecked(wps) ==
    IF wps = "disabled" THEN None ELSE "result"

(* get_attribute_statistics: None when the service is switched off or the *)
(* request fails, the statistics otherwise.  wps is "disabled", "fails"   *)
(* or "ok".                                                               *)
get_attribute_statistics(wps) == IF wps = "ok" THEN "result" ELSE None

(* get_attribute_statistics: the number of requests it sends to the *)
(* statistics service, none when WPS_ENABLED is unset               *)
wps_requests(wps) == IF wps = "disabled" THEN 0 ELSE 1

(* s.find(sub): the lowest index, from 0, at which sub occurs in s, and -1 *)
(* when it does not occur                                                 *)
find(sub, s) ==
    LET hits == {k \in 0..(Len(s) - Len(sub)) :
                    \A j \in 1..Len(sub) : s[k + j] = sub[j]}
    IN  IF hits = {} THEN -1 ELSE CHOOSE k \in hits : \A j \in hits : k <= j

(* The rows of one layer *)
attribute_set(attrs, layer_name) == {la \in attrs : la.layer = layer_name}

(* A first loop that deletes only the rows the schema no longer has *)
StaleOnlyWhenMissing(attrs, layer_name, attribute_map, overwrite) ==
    {la \in attribute_set(attrs, layer_name) :
        ~\E k \in 1..Len(attribute_map) : attribute_map[k][1] = la.attribute}

(* The first loop of set_attributes: the rows of the layer that go *)
Stale(attrs, layer_name, attribute_map, overwrite) ==
    {la \in attribute_set(attrs, layer_name) :
        LET lafound == \E k \in 1..Len(attribute_map) : attribute_map[k][1] = la.attribute
        IN  overwrite \/ ~lafound}

(* The display_order of a row that no la.save() has written; the orders *)
(* the code writes start at 1.  The defaults of the model Attribute are *)
(* not in the source: the other fields of such a row are None.          *)
NotWritten == 0

(* The row as Attribute.objects.get_or_create(layer=layer,              *)
(* attribute=field, attribute_type=ftype) makes it at line 511          *)
CreatedAttribute(layer, field, ftype) ==
    [layer |-> layer.name, attribute |-> field, attribute_type |-> ftype,
     display_order |-> NotWritten, visible |-> None, stats |-> None,
     last_stats_updated |-> None]

(* The row once la.save() has written what lines 513-528 assign *)
NewAttribute(layer, field, ftype, iter, wps) ==
    LET result == IF is_layer_attribute_aggregable(layer.storeType, field, ftype)
                  THEN get_attribute_statistics(wps) ELSE None
    IN  [CreatedAttribute(layer, field, ftype) EXCEPT
            !.display_order = iter,
            !.visible = IF find(<<"g", "m", "l", ":">>, ftype) # 0
                        THEN "True" ELSE "False",
            !.stats = result,
            !.last_stats_updated = IF result # None THEN "now" ELSE None]

(* No call of set_attributes raises.  A fault of set_attributes names the *)
(* call that raises: at is "request" (the schema request of a dataStore   *)
(* layer and its parsing, 475-478), "all" (layer.attribute_set.all(),     *)
(* 495-497), "delete" (la.delete(), 504, gone being the rows deleted      *)
(* before it), "filter" (Attribute.objects.filter, 508), "get_or_create"  *)
(* (511, for field k) or "save" (la.save(), 529, for field k).            *)
NoFault == [at |-> "none", k |-> 0, gone |-> {}]

(* The attribute_map set_attributes fetches for the layer, schema being   *)
(* what the service describes: DescribeFeatureType for a dataStore layer. *)
(* For a coverageStore layer line 488 calls http.request, and the module  *)
(* binds no name http (line 49 imports http_client): the NameError is     *)
(* caught at line 492 and the attribute_map is the empty list.  It is the *)
(* empty list for any other store type.                                   *)
FetchAttributeMap(layer, schema) ==
    IF layer.storeType = "dataStore" THEN schema ELSE <<>>

(* The calls of set_attributes(layer, overwrite) that can raise.  The     *)
(* source gives layer.attribute_set.all() no order, so that the rows      *)
(* deleted before the la.delete() that raises are any of the rows to      *)
(* delete but one.  la.save() is called for the fields whose row          *)
(* get_or_create makes.                                                   *)
AttributeFaults(attrs, layer, schema, overwrite) ==
    LET attribute_map == FetchAttributeMap(layer, schema)
        stale == Stale(attrs, layer.name, attribute_map, overwrite)
        named == {n \in 1..Len(attribute_map) : attribute_map[n][1] # NoField}
    IN  {[at |-> a, k |-> 0, gone |-> {}] : a \in {"none", "all", "filter"}}
        \cup (IF layer.storeType = "dataStore"
              THEN {[at |-> "request", k |-> 0, gone |-> {}]} ELSE {})
        \cup {[at |-> "get_or_create", k |-> j, gone |-> {}] : j \in named}
        \cup {[at |-> "save", k |-> j, gone |-> {}] :
                j \in {n \in named :
                          ~\E la \in attribute_set(attrs \ stale, layer.name) :
                              /\ la.attribute = attribute_map[n][1]
                              /\ la.attribute_type = attribute_map[n][2]}}
        \cup {[at |-> "delete", k |-> Cardinality(gone) + 1, gone |-> gone] :
                gone \in (SUBSET stale) \ {stale}}

RECURSIVE CreateAttributes(_, _, _, _, _, _, _)
(* The second loop of set_attributes from field k on.  When la.save()    *)
(* raises, the store holds the row as get_or_create made it: what lines  *)
(* 517-528 assigned to the instance is not written.                      *)
CreateAttributes(attrs, layer, attribute_map, iter, k, fault, wps) ==
    IF k > Len(attribute_map)
    THEN [attrs |-> attrs, raised |-> FALSE, created |-> {}, wps_requests |-> 0]
    ELSE LET field == attribute_map[k][1]
             ftype == attribute_map[k][2]
             exists == \E la \in attribute_set(attrs, layer.name) :
                          la.attribute = field /\ la.attribute_type = ftype
             requests == IF is_layer_attribute_aggregable(layer.storeType,
                                                          field, ftype)
                         THEN wps_requests(wps) ELSE 0
         IN  IF field = NoField
             THEN CreateAttributes(attrs, layer, attribute_map, iter, k + 1, fault, wps)
             ELSE IF fault.at = "get_or_create" /\ fault.k = k
             THEN [attrs |-> attrs, raised |-> TRUE, created |-> {},
                   wps_requests |-> 0]
             ELSE IF exists
             THEN CreateAttributes(attrs, layer, attribute_map, iter, k + 1, fault, wps)
             ELSE IF fault.at = "save" /\ fault.k = k
             THEN [attrs |-> attrs \cup {CreatedAttribute(layer, field, ftype)},
                   raised |-> TRUE,
                   created |-> {CreatedAttribute(layer, field, ftype)},
                   wps_requests |-> requests]
             ELSE LET la == NewAttribute(layer, field, ftype, iter, wps)
                      rest == CreateAttributes(attrs \cup {la}, layer, attribute_map,
                                               iter + 1, k + 1, fault, wps)
                  IN  [rest EXCEPT !.created = @ \cup {la},
                                   !.wps_requests = @ + requests]

(* set_attributes(layer, overwrite), with the call that raises, if any *)
set_attributes(attrs, layer, schema, overwrite, fault, wps) ==
    LET attribute_map == FetchAttributeMap(layer, schema)
        stale == Stale(attrs, layer.name, attribute_map, overwrite)
        kept == attrs \ stale
        iter == Cardinality(attribute_set(kept, layer.name)) + 1
        raises(rows) == [attrs |-> rows, raised |-> TRUE, created |-> {},
                         wps_requests |-> 0]
    IN  IF fault.at = "request" /\ layer.storeType = "dataStore" THEN raises(attrs)
        ELSE IF fault.at = "all" THEN raises(attrs)
        ELSE IF fault.at = "delete" /\ fault.gone \subseteq stale /\ fault.gone # stale
        THEN raises(attrs \ fault.gone)
        ELSE IF fault.at = "filter" THEN raises(kept)
        ELSE CreateAttributes(kept, layer, attribute_map, iter, 1, fault, wps)

----------------------------------------------------------------------------
(* gs_slurp: the record store. *)

HasLayer(table, name) == \E k \in 1..Len(table) : table[k].name = name

GetLayer(table, name) == table[CHOOSE k \in 1..Len(table) : table[k].name = name]

(* The row get_or_create makes from its defaults; typename, title,    *)
(* abstract, owner and uuid play no part in what follows and are left *)
(* out of the row.                                                    *)
NewLayer(resource) ==
    [name |-> resource.name,
     workspace |-> resource.store.workspace,
     store |-> resource.store.name,
     storeType |-> resource.store.resource_type]

(* get_or_create with a lookup that never finds the row *)
get_or_create_never_found(table, resource) ==
    [table |-> Append(table, NewLayer(resource)),
     layer |-> NewLayer(resource), created |-> TRUE]

(* Layer.objects.get_or_create(name=name, defaults={...}) *)
get_or_create(table, resource) ==
    IF HasLayer(table, resource.name)
    THEN [table |-> table, layer |-> GetLayer(table, resource.name),
          created |-> FALSE]
    ELSE [table |-> Append(table, NewLayer(resource)),
          layer |-> NewLayer(resource), created |-> TRUE]

(* The places of one pass of the upsert loop where a call can raise: *)
(* Layer.objects.get_or_create, layer.save(), a call inside          *)
(* set_attributes(layer, overwrite=True), set_default_permissions    *)
Faults(attrs, layer, schema, fail) ==
    IF fail
    THEN {[at |-> a, within |-> NoFault] :
             a \in {"none", "get_or_create", "save", "permissions"}}
         \cup {[at |-> "set_attributes", within |-> f] :
                 f \in AttributeFaults(attrs, layer, schema, TRUE) \ {NoFault}}
    ELSE {[at |-> "none", within |-> NoFault]}

(* The body of the upsert loop for one resource: the try block, its except *)
(* clause and its else clause.  raised is "no", "caught" (the except       *)
(* clause has the exception) or "escaped" (it was raised in the else       *)
(* clause, which no except clause covers).                                 *)
ProcessOne(table, attrs, resource, schema, fault, wps) ==
    LET goc == get_or_create(table, resource)
        sa == set_attributes(attrs, goc.layer, schema, TRUE,
                             IF fault.at = "set_attributes" THEN fault.within
                             ELSE NoFault, wps)
    IN  IF fault.at = "get_or_create"
        THEN [table |-> table, attrs |-> attrs, raised |-> "caught", created |-> FALSE]
        ELSE IF fault.at = "save"
        THEN [table |-> goc.table, attrs |-> attrs, raised |-> "caught",
              created |-> goc.created]
        ELSE IF sa.raised
        THEN [table |-> goc.table, attrs |-> sa.attrs, raised |-> "caught",
              created |-> goc.created]
        ELSE IF goc.created /\ fault.at = "permissions"
        THEN [table |-> goc.table, attrs |-> sa.attrs, raised |-> "escaped",
              created |-> TRUE]
        ELSE [table |-> goc.table, attrs |-> sa.attrs, raised |-> "no",
              created |-> goc.created]

(* An except clause that never re-raises *)
ReraisesNever(ignore_errors) == FALSE

(* What the except clause does with an exception: TRUE when it re-raises *)
Reraises(ignore_errors) == ~ignore_errors

(* q: the Layer rows of the remove_deleted pass *)
ScopeQuery(table, workspace, st) ==
    SelectSeqBy(table, {layer \in Range(table) :
        /\ (workspace = None \/ layer.workspace = workspace)
        /\ (st = NoStore \/ layer.store = st.name)})

layer_found_in_geoserver(layer, compare) ==
    \E k \in 1..Len(compare) :
        /\ layer.name = compare[k].name
        /\ layer.workspace = compare[k].store.workspace
        /\ layer.store = compare[k].store.name

(* deleted_layers: the rows of q that no resource of the snapshot matches *)
FindDeletedLayers(q, compare) ==
    SelectSeqBy(q, {layer \in Range(q) : ~layer_found_in_geoserver(layer, compare)})

(* layer.delete(): the row goes, and its attributes with it *)
DeleteRow(table, layer) == SelectSeqBy(table, Range(table) \ {layer})

(* pre_delete.disconnect(geoserver_pre_delete, sender=Layer) *)
Disconnect(connected) == FALSE

(* A reconnection that is skipped *)
ConnectSkipped(connected) == connected

(* pre_delete.connect(geoserver_pre_delete, sender=Layer) *)
Connect(connected) == TRUE

----------------------------------------------------------------------------
(* gs_slurp: the inputs of the model. *)

FieldElevation == <<"e", "l", "e", "v", "a", "t", "i", "o", "n">>

FieldID == <<"I", "D">>

FieldGeom == <<"t", "h", "e", "_", "g", "e", "o", "m">>

FieldOld == <<"o", "l", "d">>

(* What DescribeFeatureType and DescribeCoverage answer during gs_slurp *)
SlurpSchema(store_type) ==
    IF store_type = "dataStore" THEN << <<FieldElevation, XsdInt>> >> ELSE <<>>

Options ==
    [ignore_errors : BOOLEAN,
     workspace : {None, "w1"},
     store : {None, "s1", "s3"},
     filter : {<<>>},
     skip_unadvertised : {FALSE},
     remove_deleted : BOOLEAN]

FilterOptions ==
    [ignore_errors : {TRUE},
     workspace : {None, "w1", "w9"},
     store : {None},
     filter : {<<>>, <<"a">>},
     skip_unadvertised : BOOLEAN,
     remove_deleted : BOOLEAN]

IdemOptions ==
    [ignore_errors : {TRUE},
     workspace : {None},
     store : {None},
     filter : {<<>>, <<"a">>},
     skip_unadvertised : BOOLEAN,
     remove_deleted : BOOLEAN]

StatusOptions ==
    [ignore_errors : {TRUE},
     workspace : {None, "w1"},
     store : {None},
     filter : {<<>>, <<"a">>},
     skip_unadvertised : BOOLEAN,
     remove_deleted : BOOLEAN]

LayerPool ==
    {[name |-> n, workspace |-> s.workspace, store |-> s.name,
      storeType |-> s.resource_type] : n \in ResourceNames, s \in Stores}

(* Layer rows are unique by name *)
UniqueNames(table) ==
    \A j, k \in 1..Len(table) : table[j].name = table[k].name => j = k

InitialTables(n) == {t \in BoundedSeq(LayerPool, n) : UniqueNames(t)}

(* The attribute every Layer row of the initial store has *)
InitialAttributes(table) ==
    {[layer |-> table[k].name, attribute |-> FieldOld,
      attribute_type |-> XsdString, display_order |-> 1, visible |-> "True",
      stats |-> None, last_stats_updated |-> None] : k \in 1..Len(table)}

(* The catalog holds one resource of a name in a workspace *)
UniqueInWorkspace(cat) ==
    \A j, k \in 1..Len(cat) :
        (cat[j].name = cat[k].name /\ cat[j].store.workspace = cat[k].store.workspace)
            => j = k

(* No call of cascading_delete *)
NoRequest ==
    [qualified |-> FALSE, workspace_exists |-> FALSE, lookup |-> "ok",
     resource_exists |-> FALSE, layer_exists |-> FALSE, styles |-> <<>>,
     default_style |-> None, store_kind |-> None]

(* No call of set_attributes *)
NoCall ==
    [n |-> 0, overwrite |-> FALSE, attribute_map |-> <<>>, raised |-> FALSE,
     before |-> {}, wps |-> None, fault |-> FALSE, created |-> {}, wps_requests |-> 0]

InitWith(pool, options, tables, faults) ==
    /\ catalog \in {cat \in BoundedSeq(pool, MaxRes) : UniqueInWorkspace(cat)}
    /\ collaborators_fail \in faults
    /\ opts \in options
    /\ layer_objects \in tables
    /\ attribute_objects = InitialAttributes(layer_objects)
    /\ initial_layers = layer_objects
    /\ pc = "start"
    /\ resources = <<>>
    /\ i = 1
    /\ store = NoStore
    /\ workspace_for_delete_compare = None
    /\ resources_for_delete_compare = <<>>
    /\ deleted_layers = <<>>
    /\ output = EmptyOutput
    /\ pre_delete_connected = TRUE
    /\ catalog_touched = FALSE
    /\ history = <<>>

(* cascading_delete is not called *)
CascadeIdle ==
    /\ request = NoRequest
    /\ cd_pc = "idle"
    /\ styles = <<>>
    /\ s_index = 1
    /\ cat_calls = <<>>

(* set_attributes is not called on its own *)
AttrIdle == last_call = NoCall

(* No call of is_layer_attribute_aggregable *)
NoAggregableCall ==
    [store_type |-> None, field_name |-> NoField, field_type |-> None,
     called |-> FALSE, result |-> FALSE]

(* The None get_sld_for returns where it returns no document *)
NoDocument == [template |-> None, name |-> None, context |-> <<>>]

(* No call of get_sld_for *)
NoSld == [name |-> None, layer |-> None, result |-> NoDocument]

(* fixup_style is not called *)
FixupIdle ==
    /\ fx_request = [style |-> None, layers |-> <<>>]
    /\ fx_pc = "idle"
    /\ gs_layers = <<>>
    /\ style = None
    /\ lyr_index = 1
    /\ created_styles = <<>>

(* is_layer_attribute_aggregable and get_sld_for are not called on their *)
(* own; _style_contexts is as the import of the module leaves it         *)
HelpersIdle ==
    /\ FixupIdle
    /\ aggregable_call = NoAggregableCall
    /\ style_contexts = 0
    /\ sld_log = <<>>
    /\ sld = NoSld

(* gs_slurp is not called *)
SlurpIdle ==
    InitWith({}, {[ignore_errors |-> TRUE, workspace |-> None, store |-> None,
                   filter |-> <<>>, skip_unadvertised |-> FALSE,
                   remove_deleted |-> FALSE]}, {<<>>}, {FALSE})

(* Collaborators that can fail, every scope, no name filter *)
Init ==
    /\ InitWith(ResourcePool(Stores, BasicFlags), Options, InitialTables(MaxLocal),
                {TRUE})
    /\ CascadeIdle
    /\ AttrIdle
    /\ HelpersIdle

(* Collaborators that do not fail, every filter *)
FilterInit ==
    /\ InitWith(ResourcePool({st \in Stores : st.resource_type = "dataStore"},
                             FilterFlags),
                FilterOptions, InitialTables(MaxFilterLocal), {FALSE})
    /\ CascadeIdle
    /\ AttrIdle
    /\ HelpersIdle

(* Collaborators that do not fail, the whole catalog, two runs *)
IdemInit ==
    /\ InitWith(ResourcePool({st \in Stores : st.resource_type = "dataStore"},
                             FilterFlags),
                IdemOptions, InitialTables(MaxFilterLocal), {FALSE})
    /\ CascadeIdle
    /\ AttrIdle
    /\ HelpersIdle

(* Collaborators that do not fail, every value of the two flags *)
StatusInit ==
    /\ InitWith(ResourcePool({st \in Stores : st.resource_type = "dataStore"},
                             StatusFlags),
                StatusOptions,
                {<<>>, <<[name |-> <<"b">>, workspace |-> "w1", store |-> "s1",
                          storeType |-> "dataStore"]>>},
                {FALSE})
    /\ CascadeIdle
    /\ AttrIdle
    /\ HelpersIdle

----------------------------------------------------------------------------
(* gs_slurp: the steps. *)

(* Where the run goes when a loop over n items has handled item k *)
AfterUpsert(k, n, remove_deleted) ==
    IF k < n THEN "loop" ELSE IF remove_deleted THEN "remove" ELSE "finish"

(* Lines 273-329: the resource set, the snapshot for the remove_deleted *)
(* pass, the filters, the empty report.                                 *)
Resolve ==
    /\ pc = "start"
    /\ LET r == ResolveResources(catalog, opts.workspace, opts.store)
           rs == Filtered(r.resources, opts.filter, opts.skip_unadvertised)
       IN  IF r.raised
           THEN /\ pc' = "raised"
                /\ UNCHANGED <<resources, store, workspace_for_delete_compare,
                               resources_for_delete_compare>>
           ELSE /\ pc' = AfterUpsert(0, Len(rs), opts.remove_deleted)
                /\ resources' = rs
                /\ store' = r.store
                /\ workspace_for_delete_compare' =
                       IF opts.remove_deleted THEN r.workspace ELSE None
                /\ resources_for_delete_compare' =
                       IF opts.remove_deleted
                       THEN DeleteCompare(r.resources, opts.skip_unadvertised)
                       ELSE <<>>
    /\ i' = 1
    /\ output' = EmptyOutput
    /\ UNCHANGED <<cascade_vars, attr_vars, helper_vars>>
    /\ UNCHANGED <<catalog, collaborators_fail, opts, layer_objects, attribute_objects, initial_layers,
                   deleted_layers, pre_delete_connected, catalog_touched, history>>

(* Lines 330-376: one pass of the upsert loop *)
ProcessResource ==
    /\ pc = "loop"
    /\ \E fault \in Faults(attribute_objects,
                           get_or_create(layer_objects, resources[i]).layer,
                           SlurpSchema(get_or_create(layer_objects,
                                                     resources[i]).layer.storeType),
                           collaborators_fail) :
         LET resource == resources[i]
             layer == get_or_create(layer_objects, resource).layer
             p == ProcessOne(layer_objects, attribute_objects, resource,
                             SlurpSchema(layer.storeType), fault, "disabled")
             status == IF p.raised = "caught" THEN "failed"
                       ELSE IF p.created THEN "created" ELSE "updated"
             aborts == \/ p.raised = "escaped"
                       \/ p.raised = "caught" /\ Reraises(opts.ignore_errors)
         IN  /\ store' = resource.store
             /\ layer_objects' = p.table
             /\ attribute_objects' = p.attrs
             /\ IF aborts
                THEN /\ pc' = "raised"
                     /\ UNCHANGED <<i, output>>
                ELSE /\ pc' = AfterUpsert(i, Len(resources), opts.remove_deleted)
                     /\ i' = i + 1
                     /\ output' =
                          [output EXCEPT
                             !.stats[status] = @ + 1,
                             !.layers = Append(@, [name |-> resource.name,
                                                   status |-> status])]
    /\ UNCHANGED <<cascade_vars, attr_vars, helper_vars>>
    /\ UNCHANGED <<catalog, collaborators_fail, opts, initial_layers, resources,
                   workspace_for_delete_compare, resources_for_delete_compare,
                   deleted_layers, pre_delete_connected, catalog_touched, history>>

(* Lines 378-409: the rows to delete.  The query and the loop over its *)
(* rows are in no try statement: an exception of the record store      *)
(* leaves gs_slurp before any candidate is handled.                    *)
FindDeleted ==
    /\ pc = "remove"
    /\ \E ok \in {TRUE, ~collaborators_fail} :
         IF ok
         THEN LET q == ScopeQuery(layer_objects, workspace_for_delete_compare,
                                 store)
                  found == FindDeletedLayers(q, resources_for_delete_compare)
              IN  /\ deleted_layers' = found
                  /\ pc' = IF found = <<>> THEN "finish" ELSE "delete"
                  /\ i' = 1
         ELSE /\ pc' = "raised"
              /\ UNCHANGED <<deleted_layers, i>>
    /\ UNCHANGED <<cascade_vars, attr_vars, helper_vars>>
    /\ UNCHANGED <<catalog, collaborators_fail, opts, layer_objects, attribute_objects, initial_layers,
                   resources, store, workspace_for_delete_compare,
                   resources_for_delete_compare, output, pre_delete_connected,
                   catalog_touched, history>>

(* The report of one candidate and the move to the next one (lines 431-440) *)
Reported(status) ==
    /\ output' =
         [output EXCEPT
            !.stats.deleted = IF status = "delete_succeeded" THEN @ + 1 ELSE @,
            !.deleted_layers = Append(@, [name |-> deleted_layers[i].name,
                                          status |-> status])]
    /\ i' = i + 1
    /\ pc' = IF i < Len(deleted_layers) THEN "delete" ELSE "finish"

(* Lines 411-422: geoserver_pre_delete is imported, the ratings, comments *)
(* and keywords of one candidate go, then the hook is disconnected; when  *)
(* one of the calls raises, the except and finally clauses (lines         *)
(* 426-429) run instead.  The import (line 415) is the first statement of *)
(* the try: when it fails for the first candidate the local name          *)
(* geoserver_pre_delete is unbound, the finally clause raises             *)
(* UnboundLocalError and the exception leaves gs_slurp; for a later       *)
(* candidate the name is bound by the pass before and the finally clause  *)
(* connects the hook.                                                     *)
DeleteDependents ==
    /\ pc = "delete"
    /\ \E outcome \in {"done"} \cup (IF collaborators_fail
                                     THEN {"import_failed", "dependents_failed"}
                                     ELSE {}) :
         IF outcome = "done"
         THEN /\ pre_delete_connected' = Disconnect(pre_delete_connected)
              /\ pc' = "deleting"
              /\ UNCHANGED <<i, output>>
         ELSE IF outcome = "import_failed" /\ i = 1
         THEN /\ pc' = "raised"
              /\ UNCHANGED <<i, output, pre_delete_connected>>
         ELSE /\ pre_delete_connected' = Connect(pre_delete_connected)
              /\ Reported("delete_failed")
    /\ UNCHANGED <<cascade_vars, attr_vars, helper_vars>>
    /\ UNCHANGED <<catalog, collaborators_fail, opts, layer_objects, attribute_objects, initial_layers,
                   resources, store, workspace_for_delete_compare,
                   resources_for_delete_compare, deleted_layers, catalog_touched,
                   history>>

(* Lines 423-429: layer.delete(), which runs the pre_delete hook when it is *)
(* connected, then the finally clause.                                      *)
DeleteLayer ==
    /\ pc = "deleting"
    /\ \E ok \in {TRUE, ~collaborators_fail} :
         LET layer == deleted_layers[i]
         IN  IF ok
             THEN /\ layer_objects' = DeleteRow(layer_objects, layer)
                  /\ attribute_objects' =
                         attribute_objects \ attribute_set(attribute_objects, layer.name)
                  /\ catalog_touched' = (catalog_touched \/ pre_delete_connected)
                  /\ Reported("delete_succeeded")
             ELSE /\ UNCHANGED <<layer_objects, attribute_objects, catalog_touched>>
                  /\ Reported("delete_failed")
    /\ pre_delete_connected' = Connect(pre_delete_connected)
    /\ UNCHANGED <<cascade_vars, attr_vars, helper_vars>>
    /\ UNCHANGED <<catalog, collaborators_fail, opts, initial_layers, resources, store,
                   workspace_for_delete_compare, resources_for_delete_compare,
                   deleted_layers, history>>

(* Lines 442-445: the report is returned *)
Finish ==
    /\ pc = "finish"
    /\ pc' = "returned"
    /\ history' = Append(history, output)
    /\ UNCHANGED <<cascade_vars, attr_vars, helper_vars>>
    /\ UNCHANGED <<catalog, collaborators_fail, opts, layer_objects, attribute_objects, initial_layers,
                   resources, i, store, workspace_for_delete_compare,
                   resources_for_delete_compare, deleted_layers, output,
                   pre_delete_connected, catalog_touched>>

(* gs_slurp is called again with the same arguments, the catalog unchanged *)
Rerun ==
    /\ pc = "returned"
    /\ Len(history) < MaxRuns
    /\ pc' = "start"
    /\ resources' = <<>>
    /\ i' = 1
    /\ store' = NoStore
    /\ workspace_for_delete_compare' = None
    /\ resources_for_delete_compare' = <<>>
    /\ deleted_layers' = <<>>
    /\ output' = EmptyOutput
    /\ UNCHANGED <<cascade_vars, attr_vars, helper_vars>>
    /\ UNCHANGED <<catalog, collaborators_fail, opts, layer_objects, attribute_objects, initial_layers,
                   pre_delete_connected, catalog_touched, history>>

Next ==
    \/ Resolve
    \/ ProcessResource
    \/ FindDeleted
    \/ DeleteDependents
    \/ DeleteLayer
    \/ Finish

Spec == Init /\ [][Next]_vars

FilterSpec == FilterInit /\ [][Next]_vars

StatusSpec == StatusInit /\ [][Next]_vars

IdemNext ==
    \/ Next
    \/ Rerun

IdemSpec == IdemInit /\ [][IdemNext]_vars

----------------------------------------------------------------------------
(* gs_slurp: the properties. *)

(* The run did not fail while resolving its resource set *)
Resolved == ~ResolveResources(catalog, opts.workspace, opts.store).raised

(* No Layer row of the store before the first run has the name of a  *)
(* resource of the filtered set                                      *)
NoMatchingLayer ==
    \A k \in 1..Len(resources) : ~HasLayer(initial_layers, resources[k].name)

DistinctNames(rs) ==
    \A j, k \in 1..Len(rs) : rs[j].name = rs[k].name => j = k

TwoRunsWithoutFailure ==
    /\ pc = "returned"
    /\ Len(history) >= 2
    /\ history[1].stats.failed = 0
    /\ history[2].stats.failed = 0

IdempotentCounts ==
    /\ history[1].stats.created = Len(resources)
    /\ history[1].stats.updated = 0
    /\ history[2].stats.created = 0
    /\ history[2].stats.updated = Len(resources)

(* C1, as stated: whenever two consecutive runs with the same options   *)
(* and catalog, started on a store with no Layer named like a filtered  *)
(* resource, went without failure, the first reports created = N and    *)
(* updated = 0 and the second created = 0 and updated = N, N being the  *)
(* number of filtered resources.                                        *)
C1_AsStated ==
    (TwoRunsWithoutFailure /\ NoMatchingLayer) => IdempotentCounts

(* C1, amended: the same, for filtered resources with pairwise distinct *)
(* names.                                                               *)
C1_Idempotence ==
    (TwoRunsWithoutFailure /\ NoMatchingLayer /\ DistinctNames(resources))
        => IdempotentCounts

(* Two runs over two resources with distinct names have returned *)
C1_Witness ==
    /\ TwoRunsWithoutFailure
    /\ NoMatchingLayer
    /\ DistinctNames(resources)
    /\ Len(resources) = 2
    /\ history[2].stats.updated = 2

(* C2: with ignore_errors the run never ends by an exception of the      *)
(* upsert loop, and it returns with one layers[] entry per filtered      *)
(* resource.                                                             *)
C2_ErrorIsolation ==
    (opts.ignore_errors /\ Resolved) =>
        /\ pc = "raised" => Len(output.layers) = Len(resources)
        /\ pc \in {"remove", "delete", "deleting", "finish", "returned"}
              => Len(output.layers) = Len(resources)

(* C3: a pass of the upsert loop that reports 'failed' leaves the Layer *)
(* rows and the Attribute rows as they were before it.                  *)
C3_Atomicity ==
    [][(pc = "loop" /\ output'.stats.failed = output.stats.failed + 1)
          => (layer_objects' = layer_objects /\ attribute_objects' = attribute_objects)]_vars

(* The Layer rows within the workspace and store options of the caller *)
InCallerScope(layer) ==
    /\ (opts.workspace = None \/ layer.workspace = opts.workspace)
    /\ (opts.store = None \/ layer.store = opts.store)

(* C4: the deletion candidates the pass chooses are exactly the Layer   *)
(* rows within the workspace and store options of the caller that no    *)
(* resource of the snapshot equals on name, workspace and store.        *)
C4_DeletionScope ==
    [][(pc = "remove" /\ pc' # "raised") =>
          Range(deleted_layers') =
              {layer \in Range(layer_objects) :
                  /\ InCallerScope(layer)
                  /\ ~layer_found_in_geoserver(layer, resources_for_delete_compare)}]_vars

NoDeleteFailed ==
    \A k \in 1..Len(output.deleted_layers) :
        output.deleted_layers[k].status = "delete_succeeded"

(* C5: when a run with remove_deleted returns and no deletion failed,  *)
(* every Layer row left within the caller's scope is equal to some     *)
(* resource of the snapshot on name, workspace and store.              *)
C5_DeletionMatching ==
    (pc = "returned" /\ opts.remove_deleted /\ NoDeleteFailed) =>
        \A layer \in Range(layer_objects) :
            InCallerScope(layer) =>
                layer_found_in_geoserver(layer, resources_for_delete_compare)

(* C6: while a Layer row is being deleted by the remove_deleted pass   *)
(* the pre_delete hook is disconnected, the hook never runs, and the   *)
(* hook is connected before the next candidate, at the end of the pass *)
(* and when gs_slurp has returned or has ended by an exception.        *)
C6_HookSuspended ==
    /\ pc = "deleting" => ~pre_delete_connected
    /\ pc \in {"delete", "finish", "returned", "raised"} => pre_delete_connected
    /\ ~catalog_touched

(* A row was deleted, the deletion of another failed, the run returned *)
C6_Witness ==
    /\ pc = "returned"
    /\ output.stats.deleted = 1
    /\ Len(output.deleted_layers) = 2
    /\ pre_delete_connected

(* The catalog has an enabled resource (advertised, when skip_unadvertised *)
(* is set) equal to the Layer row on name, workspace and store             *)
StillUpstream(layer) ==
    \E k \in 1..Len(catalog) :
        /\ catalog[k].enabled = "true"
        /\ opts.skip_unadvertised => catalog[k].advertised \in {"true", "True", None}
        /\ catalog[k].name = layer.name
        /\ catalog[k].store.workspace = layer.workspace
        /\ catalog[k].store.name = layer.store

(* C7: with remove_deleted, a Layer row whose resource is still in the  *)
(* catalog is never deleted, whatever the name filter.                  *)
C7_SnapshotIgnoresNameFilter ==
    opts.remove_deleted =>
        \A layer \in Range(initial_layers) :
            StillUpstream(layer) => layer \in Range(layer_objects)

(* A run with a name filter and remove_deleted returned; a Layer row    *)
(* whose name does not contain the filter was examined by the pass and  *)
(* is still there.                                                      *)
C7_Witness ==
    /\ pc = "returned"
    /\ opts.remove_deleted
    /\ opts.filter # <<>>
    /\ \E layer \in Range(initial_layers) :
          /\ ~Contains(opts.filter, layer.name)
          /\ StillUpstream(layer)
          /\ layer \in Range(ScopeQuery(layer_objects, workspace_for_delete_compare, store))

(* Without ignore_errors no pass of the upsert loop is reported as  *)
(* failed, and a run ended by an exception has returned no report   *)
StrictReport ==
    ~opts.ignore_errors =>
        /\ output.stats.failed = 0
        /\ \A k \in 1..Len(output.layers) :
              output.layers[k].status \in {"created", "updated"}
        /\ pc = "raised" => history = <<>>

(* A pass of the upsert loop without ignore_errors: when the resource   *)
(* raises, the run ends there, at that resource, with the passes before *)
(* it the only ones reported and the Layer rows of their resources in   *)
(* the store; when it does not, the resource is reported next.          *)
StrictPass ==
    (~opts.ignore_errors /\ pc = "loop") =>
        /\ i \in 1..Len(resources)
        /\ Len(output.layers) = i - 1
        /\ IF pc' = "raised"
           THEN /\ i' = i
                /\ output' = output
                /\ \A k \in 1..(i - 1) :
                      /\ output.layers[k].name = resources[k].name
                      /\ HasLayer(layer_objects', resources[k].name)
           ELSE /\ i' = i + 1
                /\ Len(output'.layers) = i
                /\ output'.layers[i].name = resources[i].name

(* C8: without ignore_errors no pass of the upsert loop is reported as  *)
(* failed; the first resource that raises ends the run by an exception, *)
(* the passes before it are the only ones reported, the Layer rows of   *)
(* their resources are in the store, no report is returned, and nothing *)
(* is done after the exception.                                         *)
C8_StrictMode ==
    /\ []StrictReport
    /\ [][StrictPass]_vars
    /\ [][pc # "raised"]_vars

(* The second resource raised in strict mode after the first was created *)
C8_Witness ==
    /\ ~opts.ignore_errors
    /\ pc = "raised"
    /\ i = 2
    /\ output.stats.created = 1
    /\ ~HasLayer(initial_layers, resources[1].name)
    /\ HasLayer(layer_objects, resources[1].name)

----------------------------------------------------------------------------
(* cascading_delete. *)

MaxStyles == 2

_default_style_names == {"point", "line", "polygon", "raster"}

StyleNames == {"point", "raster", "roads", "rivers"}

(* Lists without repetition *)
NoRepeat(seq) == \A j, k \in 1..Len(seq) : seq[j] = seq[k] => j = k

(* What one call of cascading_delete finds: the form of layer_name, the   *)
(* workspace, the outcome of the lookups (answered, connection refused,  *)
(* another EnvironmentError), the resource, the layer object with its    *)
(* alternate styles and its default style, and the kind of its store.    *)
Requests ==
    [qualified : BOOLEAN,
     workspace_exists : BOOLEAN,
     lookup : {"ok", "refused", "error"},
     resource_exists : BOOLEAN,
     layer_exists : BOOLEAN,
     styles : {seq \in BoundedSeq(StyleNames \cup {None}, MaxStyles) : NoRepeat(seq)},
     default_style : StyleNames \cup {None},
     store_kind : {"postgis", "shapefile", "coverage"}]

(* The outcomes of a request on the catalog: done, refused by the server *)
(* (FailedRequestError), or any other exception                          *)
Outcomes == {"ok", "FailedRequestError", "error"}

CascadeInit ==
    /\ SlurpIdle
    /\ AttrIdle
    /\ HelpersIdle
    /\ request \in Requests
    /\ cd_pc = "start"
    /\ styles = <<>>
    /\ s_index = 1
    /\ cat_calls = <<>>

(* A lookup that takes every name for the name of a resource *)
LookupResultFound(req) == "layer"

(* Lines 189-216: where the lookup of the resource leaves the call *)
LookupResult(req) ==
    IF req.qualified /\ req.lookup = "ok" /\ ~req.workspace_exists THEN "returned"
    ELSE IF req.lookup = "refused" THEN "returned"
    ELSE IF req.lookup = "error" THEN "raised"
    ELSE IF ~req.resource_exists THEN "returned"
    ELSE "layer"

(* styles = lyr.styles + [lyr.default_style] *)
CapturedStyles(req) == req.styles \o <<req.default_style>>

(* The test of line 224 on one captured style *)
ToDelete(s) == s # None /\ s \notin _default_style_names

(* A store test that sends every vector store to PostGIS *)
IsPostgisForVectors(kind) == kind \in {"postgis", "shapefile"}

(* The store test of line 238 *)
IsPostgis(kind) == kind = "postgis"

CascadeUnchanged ==
    UNCHANGED <<slurp_vars, store_vars, attr_vars, helper_vars, request>>

(* Lines 189-216 *)
CascadeLookup ==
    /\ cd_pc = "start"
    /\ cd_pc' = LookupResult(request)
    /\ UNCHANGED <<styles, s_index, cat_calls>>
    /\ CascadeUnchanged

(* Lines 217-222: the layer object is looked up and, when there is one, *)
(* deleted after its styles were captured                               *)
CascadeDeleteLayer ==
    /\ cd_pc = "layer"
    /\ IF ~request.layer_exists
       THEN /\ cd_pc' = "returned"
            /\ UNCHANGED <<styles, cat_calls>>
       ELSE \E outcome \in Outcomes :
              /\ styles' = CapturedStyles(request)
              /\ cat_calls' = Append(cat_calls, [op |-> "delete_layer", arg |-> None,
                                                 outcome |-> outcome])
              /\ cd_pc' = IF outcome = "ok" THEN "styles" ELSE "raised"
    /\ s_index' = 1
    /\ CascadeUnchanged

(* Lines 223-230: one pass of the loop over the captured styles *)
CascadeDeleteStyle ==
    /\ cd_pc = "styles"
    /\ \E outcome \in Outcomes :
         LET s == styles[s_index]
             raises == ToDelete(s) /\ outcome = "error"
         IN  /\ cat_calls' = IF ToDelete(s)
                            THEN Append(cat_calls, [op |-> "delete_style", arg |-> s,
                                                    outcome |-> outcome])
                            ELSE cat_calls
             /\ cd_pc' = IF raises THEN "raised"
                         ELSE IF s_index < Len(styles) THEN "styles" ELSE "resource"
             /\ s_index' = IF raises THEN s_index ELSE s_index + 1
    /\ UNCHANGED styles
    /\ CascadeUnchanged

(* Lines 233-236: the resource is deleted; on any exception the catalog *)
(* is reloaded instead                                                  *)
CascadeDeleteResource ==
    /\ cd_pc = "resource"
    /\ \E outcome \in Outcomes, reload \in {"ok", "error"} :
         /\ cat_calls' =
              IF outcome = "ok"
              THEN Append(cat_calls, [op |-> "delete_resource", arg |-> None,
                                      outcome |-> outcome])
              ELSE cat_calls \o <<[op |-> "delete_resource", arg |-> None,
                                   outcome |-> outcome],
                                  [op |-> "reload", arg |-> None,
                                   outcome |-> reload]>>
         /\ cd_pc' = IF outcome # "ok" /\ reload = "error" THEN "raised" ELSE "store"
    /\ UNCHANGED <<styles, s_index>>
    /\ CascadeUnchanged

(* Lines 238-246: the table of a PostGIS store is dropped                *)
(* (delete_from_postgis: a failed connection raises, a failed statement  *)
(* is logged), any other store is deleted with recurse                   *)
CascadeDeleteStore ==
    /\ cd_pc = "store"
    /\ \E outcome \in Outcomes :
         /\ cat_calls' =
              Append(cat_calls,
                     [op |-> IF IsPostgis(request.store_kind)
                             THEN "drop_table" ELSE "delete_store",
                      arg |-> None, outcome |-> outcome])
         /\ cd_pc' = IF outcome = "error" THEN "raised" ELSE "returned"
    /\ UNCHANGED <<styles, s_index>>
    /\ CascadeUnchanged

CascadeNext ==
    \/ CascadeLookup
    \/ CascadeDeleteLayer
    \/ CascadeDeleteStyle
    \/ CascadeDeleteResource
    \/ CascadeDeleteStore

CascadeSpec == CascadeInit /\ [][CascadeNext]_vars

(* C15: when the lookup of the resource is refused by the server's     *)
(* socket, or the workspace of a qualified name does not exist, or the *)
(* resource does not exist, cascading_delete returns without raising   *)
(* and makes no delete, reload or table drop.                          *)
C15_NoOp ==
    (\/ request.lookup = "refused"
     \/ request.lookup = "ok" /\ request.qualified /\ ~request.workspace_exists
     \/ request.lookup = "ok" /\ ~request.resource_exists)
        => /\ cd_pc \in {"start", "returned"}
           /\ cat_calls = <<>>

(* A call on the name of a layer that exists returned because the *)
(* connection was refused                                         *)
C15_Witness ==
    /\ cd_pc = "returned"
    /\ request.lookup = "refused"
    /\ request.resource_exists
    /\ request.layer_exists
    /\ cat_calls = <<>>

(* The delete requests made on the style of a name *)
StyleDeletes(name) ==
    Cardinality({k \in 1..Len(cat_calls) :
        cat_calls[k].op = "delete_style" /\ cat_calls[k].arg = name})

(* C9: when cascading_delete has gone through the styles of a layer    *)
(* object, it has made no delete request on point, line, polygon or    *)
(* raster, and exactly one on each other style of the layer, default   *)
(* or alternate.                                                       *)
C9_StyleDeletes ==
    (cd_pc \in {"resource", "store", "returned"} /\ styles # <<>>) =>
        /\ \A name \in _default_style_names : StyleDeletes(name) = 0
        /\ \A name \in Range(styles) \ (_default_style_names \cup {None}) :
              StyleDeletes(name) = 1

----------------------------------------------------------------------------
(* set_attributes, called on one layer time and again. *)

MaxCalls == 3

MaxFields == 2

FieldBand == <<"B", "1">>

(* The elements DescribeFeatureType can describe *)
FeatureFields ==
    {<<FieldElevation, XsdInt>>, <<FieldElevation, XsdString>>,
     <<FieldGeom, GmlPointPropertyType>>}

(* The axis keys DescribeCoverage can describe; the text of a key can be *)
(* missing                                                               *)
CoverageFields == {<<NoField, RasterType>>, <<FieldBand, RasterType>>}

(* A schema names each of its fields once *)
NamedOnce(schema) ==
    \A j, k \in 1..Len(schema) : schema[j][1] = schema[k][1] => j = k

(* What the service can describe for a layer of a store type; what it *)
(* describes for a coverageStore layer never reaches set_attributes,  *)
(* whose request fails before it is sent.                             *)
Schemas(store_type) ==
    {schema \in BoundedSeq(IF store_type = "dataStore" THEN FeatureFields
                           ELSE CoverageFields, MaxFields) : NamedOnce(schema)}

WpsOutcomes == {"disabled", "fails", "ok"}

(* The statistics service as the calls find it: a call consults it when *)
(* it makes the row of a field the statistics are derived for (lines    *)
(* 512-515), and the other calls are made with it switched off          *)
WpsConsulted(attrs, layer, schema, overwrite) ==
    LET attribute_map == FetchAttributeMap(layer, schema)
        kept == attrs \ Stale(attrs, layer.name, attribute_map, overwrite)
    IN  IF \E k \in 1..Len(attribute_map) :
              /\ attribute_map[k][1] # NoField
              /\ is_layer_attribute_aggregable(layer.storeType, attribute_map[k][1],
                                               attribute_map[k][2])
              /\ ~\E la \in attribute_set(kept, layer.name) :
                     /\ la.attribute = attribute_map[k][1]
                     /\ la.attribute_type = attribute_map[k][2]
        THEN WpsOutcomes ELSE {"disabled"}

AttrLayers ==
    {[name |-> <<"b">>, workspace |-> s.workspace, store |-> s.name,
      storeType |-> s.resource_type] : s \in {t \in Stores : t.workspace = "w1"}}

AttrInit ==
    /\ InitWith({}, {[ignore_errors |-> TRUE, workspace |-> None, store |-> None,
                      filter |-> <<>>, skip_unadvertised |-> FALSE,
                      remove_deleted |-> FALSE]},
                {<<layer>> : layer \in AttrLayers}, {TRUE})
    /\ CascadeIdle
    /\ HelpersIdle
    /\ last_call = NoCall

(* One call set_attributes(layer, overwrite), lines 461-533 *)
SetAttributesCall ==
    /\ last_call.n < MaxCalls
    /\ LET layer == layer_objects[1]
       IN  \E schema \in Schemas(layer.storeType), overwrite \in BOOLEAN :
             \E wps \in WpsConsulted(attribute_objects, layer, schema, overwrite) :
             \E fault \in AttributeFaults(attribute_objects, layer, schema,
                                           overwrite) :
               LET r == set_attributes(attribute_objects, layer, schema, overwrite,
                                       fault, wps)
               IN  /\ attribute_objects' = r.attrs
                   /\ last_call' =
                        [n |-> last_call.n + 1, overwrite |-> overwrite,
                         attribute_map |-> FetchAttributeMap(layer, schema),
                         raised |-> r.raised, before |-> attribute_objects,
                         wps |-> wps, fault |-> fault # NoFault,
                         created |-> r.created,
                         wps_requests |-> r.wps_requests]
    /\ UNCHANGED <<slurp_vars, layer_objects, cascade_vars, helper_vars>>

AttrNext == SetAttributesCall

AttrSpec == AttrInit /\ [][AttrNext]_vars

(* The names and types of a set of Attribute rows *)
NamesAndTypes(attrs) == {<<la.attribute, la.attribute_type>> : la \in attrs}

(* The names and types of the fields of an attribute_map whose name is *)
(* not None                                                            *)
FetchedFields(attribute_map) ==
    {<<attribute_map[k][1], attribute_map[k][2]>> :
        k \in {j \in 1..Len(attribute_map) : attribute_map[j][1] # NoField}}

(* C10: after a call of set_attributes that did not raise, the names    *)
(* and types of the layer's Attribute rows are those of the fetched     *)
(* fields with a name when overwrite is set; without overwrite they     *)
(* include the fetched ones and the others are rows from before the     *)
(* call.                                                                *)
C10_AttributeSet ==
    (last_call.n > 0 /\ ~last_call.raised) =>
        LET now == NamesAndTypes(attribute_objects)
            fetched == FetchedFields(last_call.attribute_map)
            old == NamesAndTypes(last_call.before)
        IN  IF last_call.overwrite
            THEN now = fetched
            ELSE fetched \subseteq now /\ (now \ fetched) \subseteq old

(* An overwriting call replaced a row by one of the same name and       *)
(* another type                                                         *)
C10_Witness ==
    /\ last_call.n > 0
    /\ ~last_call.raised
    /\ last_call.overwrite
    /\ \E la \in last_call.before, lb \in attribute_objects :
          la.attribute = lb.attribute /\ la.attribute_type # lb.attribute_type
    /\ NamesAndTypes(attribute_objects) = FetchedFields(last_call.attribute_map)
    /\ Cardinality(attribute_objects) = 2

(* C11: after any sequence of calls of set_attributes, with either      *)
(* value of overwrite and whatever the service describes between the    *)
(* calls, no two Attribute rows of the layer have the same attribute    *)
(* name.                                                                *)
C11_AttributeUniqueness ==
    \A la, lb \in attribute_set(attribute_objects, layer_objects[1].name) :
        la.attribute = lb.attribute => la = lb

----------------------------------------------------------------------------
(* gs_slurp: the enabled and advertised flags. *)

(* The resources of the catalog within the workspace and store options *)
InOptionScope(k) ==
    /\ (opts.workspace = None \/ k.store.workspace = opts.workspace)
    /\ (opts.store = None \/ k.store.name = opts.store)

(* The resource set was resolved and filtered *)
Filtering == pc \notin {"start", "raised"}

(* The remove_deleted pass has chosen its candidates *)
CandidatesChosen ==
    /\ opts.remove_deleted
    /\ pc \in {"delete", "deleting", "finish", "returned"}

(* The catalog has a resource that is not enabled and equals the Layer  *)
(* row on name, workspace and store, and no enabled one that does       *)
MatchesOnlyDisabled(layer) ==
    LET same == {k \in Range(catalog) :
                    /\ k.name = layer.name
                    /\ k.store.workspace = layer.workspace
                    /\ k.store.name = layer.store}
    IN  /\ same # {}
        /\ \A k \in same : k.enabled # "true"

(* C12: a resource whose enabled flag is false or absent is in neither *)
(* the working set nor the snapshot of the remove_deleted pass, the    *)
(* layers[] entries and the created and updated counts are those of    *)
(* resources of the working set, and a Layer row of the caller's scope *)
(* that only such a resource equals is a deletion candidate.           *)
C12_EnabledFilter ==
    /\ \A k \in Range(resources) \cup Range(resources_for_delete_compare) :
          k.enabled = "true"
    /\ Len(output.layers) <= Len(resources)
    /\ \A k \in 1..Len(output.layers) : output.layers[k].name = resources[k].name
    /\ output.stats.created + output.stats.updated <= Len(output.layers)
    /\ CandidatesChosen =>
          \A layer \in Range(initial_layers) :
              (InCallerScope(layer) /\ MatchesOnlyDisabled(layer))
                  => layer \in Range(deleted_layers)

Unadvertised == {"False", "false"}

(* C13: with skip_unadvertised an enabled resource of the scope whose   *)
(* advertised flag is False or "false" is in neither the working set    *)
(* nor the snapshot of the remove_deleted pass, and one whose flag is   *)
(* True, "true" or absent is in the snapshot and, when its name passes  *)
(* the name filter, in the working set; without skip_unadvertised every *)
(* enabled resource of the scope is, whatever its flag.                 *)
C13_AdvertisedFilter ==
    Filtering =>
        \A k \in {r \in Range(catalog) : InOptionScope(r) /\ r.enabled = "true"} :
            IF opts.skip_unadvertised /\ k.advertised \in Unadvertised
            THEN /\ k \notin Range(resources)
                 /\ k \notin Range(resources_for_delete_compare)
            ELSE /\ (opts.filter = <<>> \/ Contains(opts.filter, k.name))
                    => k \in Range(resources)
                 /\ opts.remove_deleted => k \in Range(resources_for_delete_compare)

(* A run with skip_unadvertised and remove_deleted returned; it left   *)
(* out a resource whose flag is False and took one whose flag is       *)
(* absent, True or "true".                                              *)
C13_Witness ==
    /\ pc = "returned"
    /\ opts.skip_unadvertised
    /\ opts.remove_deleted
    /\ \E k \in Range(catalog) :
          /\ InOptionScope(k) /\ k.enabled = "true" /\ k.advertised = "False"
          /\ k \notin Range(resources)
    /\ \E k \in Range(resources) \cap Range(resources_for_delete_compare) :
          k.advertised \in {None, "True", "true"}
    /\ Len(output.layers) = 1

----------------------------------------------------------------------------
(* gs_slurp: the remove_deleted pass. *)

(* The deleted_layers[] entries with status 'delete_succeeded' *)
Succeeded ==
    {k \in 1..Len(output.deleted_layers) :
        output.deleted_layers[k].status = "delete_succeeded"}

(* C14: the remove_deleted pass reports one deleted_layers[] entry per  *)
(* candidate it has handled, in order, with status 'delete_succeeded'   *)
(* or 'delete_failed'; no candidate ends the run by an exception; when  *)
(* the pass is over every candidate has an entry; stats.deleted is the  *)
(* number of entries with status 'delete_succeeded', and the rows of    *)
(* those are not in the store.                                          *)
C14_DeleteIsolation ==
    /\ pc \in {"delete", "deleting"} => Len(output.deleted_layers) = i - 1
    /\ (pc \in {"finish", "returned"} /\ opts.remove_deleted)
          => Len(output.deleted_layers) = Len(deleted_layers)
    /\ pc = "raised" => (deleted_layers = <<>> /\ output.deleted_layers = <<>>)
    /\ \A k \in 1..Len(output.deleted_layers) :
          /\ output.deleted_layers[k].name = deleted_layers[k].name
          /\ output.deleted_layers[k].status \in {"delete_succeeded", "delete_failed"}
    /\ output.stats.deleted = Cardinality(Succeeded)
    /\ \A k \in Succeeded : deleted_layers[k] \notin Range(layer_objects)

----------------------------------------------------------------------------
(* set_attributes: the statistics service. *)

(* The rows a call created for fields the statistics are derived for *)
CreatedAggregable ==
    {la \in last_call.created :
        is_layer_attribute_aggregable(layer_objects[1].storeType, la.attribute,
                                      la.attribute_type)}

(* C16: a call of set_attributes with the statistics service switched  *)
(* off sends it no request; with the service switched off or failing,  *)
(* the call raises only when another of its calls does, every fetched  *)
(* field with a name has its row, and the rows the call created have   *)
(* neither statistics nor a last-updated timestamp.                    *)
C16_StatisticsIsolation ==
    (last_call.n > 0 /\ last_call.wps \in {"disabled", "fails"}) =>
        /\ last_call.wps = "disabled" => last_call.wps_requests = 0
        /\ ~last_call.fault => ~last_call.raised
        /\ ~last_call.raised =>
              FetchedFields(last_call.attribute_map)
                  \subseteq NamesAndTypes(attribute_objects)
        /\ \A la \in last_call.created :
              /\ la \in attribute_objects
              /\ la.stats = None
              /\ la.last_stats_updated = None

(* A call created the row of a numeric field of a vector layer while *)
(* the statistics service failed                                     *)
C16_Witness ==
    /\ last_call.n > 0
    /\ ~last_call.raised
    /\ last_call.wps = "fails"
    /\ last_call.wps_requests = 1
    /\ \E la \in CreatedAggregable :
          /\ la \in attribute_objects
          /\ la.attribute = FieldElevation
          /\ la.stats = None
          /\ la.last_stats_updated = None

----------------------------------------------------------------------------
(* gs_slurp: the working set. *)

(* The resources the upsert pass is to handle, in the order of the *)
(* catalog                                                         *)
WorkingSet ==
    SelectSeqBy(catalog, {k \in Range(catalog) :
        /\ InOptionScope(k)
        /\ (opts.filter = <<>> \/ Contains(opts.filter, k.name))
        /\ k.enabled = "true"
        /\ opts.skip_unadvertised => k.advertised \notin Unadvertised})

(* The upsert pass is over *)
UpsertDone == pc \in {"remove", "delete", "deleting", "finish", "returned"}

(* C17: the resources of the upsert pass are those of the workspace and *)
(* store scope whose name contains the filter, that are enabled and,    *)
(* with skip_unadvertised, not explicitly unadvertised, in the order of *)
(* the catalog, and when the pass is over layers[] has one entry for    *)
(* each, in that order; a run without remove_deleted over one such      *)
(* resource with no Layer row of its name returns created = 1,          *)
(* updated = 0, failed = 0, deleted = 0 and one entry, 'created'.       *)
C17_WorkingSet ==
    /\ Filtering => resources = WorkingSet
    /\ UpsertDone =>
          /\ Len(output.layers) = Len(WorkingSet)
          /\ \A k \in 1..Len(WorkingSet) : output.layers[k].name = WorkingSet[k].name
    /\ (/\ pc = "returned"
        /\ ~opts.remove_deleted
        /\ Len(WorkingSet) = 1
        /\ ~HasLayer(initial_layers, WorkingSet[1].name))
          => /\ output.stats = [created |-> 1, updated |-> 0, failed |-> 0,
                                deleted |-> 0]
             /\ output.layers = <<[name |-> WorkingSet[1].name, status |-> "created"]>>

(* The run with workspace, filter and skip_unadvertised over a catalog *)
(* that has one resource of the working set and another one the name   *)
(* filter leaves out                                                   *)
C17_Witness ==
    /\ pc = "returned"
    /\ opts.workspace = "w1"
    /\ opts.filter = <<"a">>
    /\ opts.skip_unadvertised
    /\ ~opts.remove_deleted
    /\ Len(catalog) = 2
    /\ Len(WorkingSet) = 1
    /\ WorkingSet[1].name = <<"a", "b">>
    /\ output.stats.created = 1
    /\ Len(output.layers) = 1

----------------------------------------------------------------------------
(* is_layer_attribute_aggregable, called on its own. *)

FieldIdentifier == <<"I", "d", "e", "n", "t", "i", "f", "i", "e", "r">>

(* The length of the short field names of the calls *)
MaxNameLen == 3

(* The characters of the short field names: the letters of ID in both  *)
(* cases, another letter, the two characters outside ASCII whose       *)
(* lower-case letter is an ASCII letter, cased letters outside ASCII   *)
(* (Latin, Greek, Cyrillic, the dotless i and the sharp S), a digit    *)
(* and a character without case                                        *)
AggregableLetters ==
    {"I", "i", "D", "d", "K", "x", "U+0130", "U+212A", "U+0131", "U+00C9",
     "U+0394", "U+0418", "U+1E9E", "1", "_"}

(* identifier with the letters of the set upper in upper case and the *)
(* letters of the set dotted written U+0130                            *)
IdentifierCased(upper, dotted) ==
    LET word == <<"i", "d", "e", "n", "t", "i", "f", "i", "e", "r">>
    IN  [k \in 1..Len(word) |->
            IF k \in dotted THEN "U+0130"
            ELSE IF k \in upper
            THEN UpperCase[CHOOSE n \in 1..26 : LowerCase[n] = word[k]]
            ELSE word[k]]

(* The field names of the calls: every name of up to MaxNameLen         *)
(* characters of AggregableLetters, identifier in every letter case,    *)
(* with U+0130 for any of its first, second, sixth and eighth letters,  *)
(* identifier with a character more or less, and the field names of the *)
(* schemas                                                              *)
AggregableNames ==
    UNION {[1..n -> AggregableLetters] : n \in 1..MaxNameLen}
        \cup {IdentifierCased(upper, dotted) :
                  upper \in SUBSET (1..Len(FieldIdentifier)),
                  dotted \in SUBSET {1, 2, 6, 8}}
        \cup {FieldIdentifier \o <<"s">>, SubSeq(FieldIdentifier, 1, 9),
              FieldElevation, FieldGeom, FieldBand}

(* The field types of the calls *)
AggregableTypes ==
    LAYER_ATTRIBUTE_NUMERIC_DATA_TYPES
        \cup {XsdString, XsdBoolean, GmlPointPropertyType, RasterType}

(* The store types of the calls *)
AggregableStoreTypes == {"dataStore", "coverageStore", "remoteStore"}

AggregableInit ==
    /\ SlurpIdle
    /\ CascadeIdle
    /\ AttrIdle
    /\ aggregable_call \in
          [store_type : AggregableStoreTypes, field_name : AggregableNames,
           field_type : AggregableTypes, called : {FALSE}, result : {FALSE}]
    /\ style_contexts = 0
    /\ sld_log = <<>>
    /\ sld = NoSld
    /\ FixupIdle

(* One call is_layer_attribute_aggregable(store_type, field_name, *)
(* field_type), lines 561-576                                     *)
AggregableCall ==
    /\ ~aggregable_call.called
    /\ aggregable_call' =
          [aggregable_call EXCEPT
             !.called = TRUE,
             !.result = is_layer_attribute_aggregable(
                            aggregable_call.store_type, aggregable_call.field_name,
                            aggregable_call.field_type)]
    /\ UNCHANGED <<slurp_vars, store_vars, cascade_vars, attr_vars, style_vars,
                   fixup_vars>>

AggregableNext == AggregableCall

AggregableSpec == AggregableInit /\ [][AggregableNext]_vars

(* The characters whose lower-case letter is the lower-case letter ch *)
Spellings(ch) ==
    {ch} \cup {UpperCase[u] : u \in {n \in 1..26 : LowerCase[n] = ch}}
         \cup (IF ch = "i" THEN {"U+0130"} ELSE IF ch = "k" THEN {"U+212A"} ELSE {})

(* The name is the lower-case word in some letter case *)
Spelled(name, word) ==
    /\ Len(name) = Len(word)
    /\ \A k \in 1..Len(name) : name[k] \in Spellings(word[k])

(* The spellings of ID in the letters A-Z *)
SpelledID == {<<"I", "D">>, <<"I", "d">>, <<"i", "D">>, <<"i", "d">>}

(* C18: is_layer_attribute_aggregable is true exactly for a field of a  *)
(* 'dataStore' layer whose type is in the numeric allow-list and whose  *)
(* name is, whatever its letter case, neither id nor identifier: never  *)
(* for a field named ID in some letter case, never for a field of a     *)
(* 'coverageStore' layer, and for a numeric elevation of a 'dataStore'  *)
(* layer.                                                               *)
C18_Aggregable ==
    aggregable_call.called =>
        LET c == aggregable_call
            name_is_id == Spelled(c.field_name, <<"i", "d">>)
            name_is_identifier ==
                Spelled(c.field_name,
                        <<"i", "d", "e", "n", "t", "i", "f", "i", "e", "r">>)
        IN  /\ c.result = (/\ c.store_type = "dataStore"
                           /\ c.field_type \in LAYER_ATTRIBUTE_NUMERIC_DATA_TYPES
                           /\ ~name_is_id
                           /\ ~name_is_identifier)
            /\ c.field_name \in SpelledID => c.result = FALSE
            /\ c.store_type = "coverageStore" => c.result = FALSE
            /\ (/\ c.store_type = "dataStore"
                /\ c.field_name = FieldElevation
                /\ c.field_type \in LAYER_ATTRIBUTE_NUMERIC_DATA_TYPES)
                  => c.result = TRUE

(* The call on a numeric field named ID of a vector layer answered *)
C18_Witness ==
    /\ aggregable_call.called
    /\ aggregable_call.store_type = "dataStore"
    /\ aggregable_call.field_name = <<"I", "D">>
    /\ aggregable_call.field_type = XsdInt
    /\ aggregable_call.result = FALSE

----------------------------------------------------------------------------
(* cascading_delete: the order of the steps. *)

(* The step a request belongs to *)
StepOf(op) ==
    IF op = "delete_layer" THEN 1
    ELSE IF op = "delete_style" THEN 2
    ELSE IF op = "delete_resource" THEN 3
    ELSE IF op = "reload" THEN 4
    ELSE 5

(* The requests of a kind *)
CallsOf(ops) == {k \in 1..Len(cat_calls) : cat_calls[k].op \in ops}

(* A request ended by an exception that its step does not catch: the   *)
(* delete of the layer object by any, a style or store delete and the  *)
(* table drop by one that is not a failed request, the reload by any   *)
Uncaught ==
    \E k \in 1..Len(cat_calls) :
        LET c == cat_calls[k]
        IN  \/ c.op = "delete_layer" /\ c.outcome # "ok"
            \/ c.op \in {"delete_style", "delete_store", "drop_table"}
                  /\ c.outcome = "error"
            \/ c.op = "reload" /\ c.outcome # "ok"

(* C19: cascading_delete on a layer object that exists deletes the layer *)
(* object first, then the styles that are not generic, then the         *)
(* resource, with one reload exactly when that delete failed, then it   *)
(* either drops the table, for a PostGIS vector store, or deletes the   *)
(* store, never both; a style delete or store delete that the catalog   *)
(* refuses and a resource delete that fails in any way do not end the   *)
(* call, which goes on to the steps after them.                         *)
C19_StepOrder ==
    /\ \A j, k \in 1..Len(cat_calls) :
          j < k =>
              \/ StepOf(cat_calls[j].op) < StepOf(cat_calls[k].op)
              \/ cat_calls[j].op = "delete_style" /\ cat_calls[k].op = "delete_style"
    /\ cat_calls # <<>> => cat_calls[1].op = "delete_layer"
    /\ \A k \in CallsOf({"reload"}) :
          cat_calls[k - 1].op = "delete_resource" /\ cat_calls[k - 1].outcome # "ok"
    /\ \A k \in CallsOf({"delete_resource"}) :
          (cat_calls[k].outcome # "ok")
              => (k < Len(cat_calls) /\ cat_calls[k + 1].op = "reload")
    /\ cd_pc = "raised" => (request.lookup = "error" \/ Uncaught)
    /\ (cd_pc = "returned" /\ cat_calls # <<>>) =>
          /\ Cardinality(CallsOf({"delete_style"}))
                = Cardinality({k \in 1..Len(styles) : ToDelete(styles[k])})
          /\ Cardinality(CallsOf({"delete_resource"})) = 1
          /\ Cardinality(CallsOf({"drop_table", "delete_store"})) = 1
          /\ cat_calls[Len(cat_calls)].op =
                IF request.store_kind = "postgis" THEN "drop_table" ELSE "delete_store"

(* The call returned after the catalog refused the delete of a style, *)
(* of the resource and of the store                                   *)
C19_Witness ==
    /\ cd_pc = "returned"
    /\ Len(cat_calls) = 5
    /\ cat_calls[1] = [op |-> "delete_layer", arg |-> None, outcome |-> "ok"]
    /\ cat_calls[2].op = "delete_style" /\ cat_calls[2].outcome = "FailedRequestError"
    /\ cat_calls[3].op = "delete_resource" /\ cat_calls[3].outcome = "FailedRequestError"
    /\ cat_calls[4] = [op |-> "reload", arg |-> None, outcome |-> "ok"]
    /\ cat_calls[5].op = "delete_store" /\ cat_calls[5].outcome = "FailedRequestError"

----------------------------------------------------------------------------
(* get_sld_for and the style contexts. *)

MaxSldCalls == 62

_foregrounds == <<"#ffbbbb", "#bbffbb", "#bbbbff", "#ffffbb", "#bbffff", "#ffbbff">>

_backgrounds == <<"#880000", "#008800", "#000088", "#888800", "#008888", "#880088">>

_marks == <<"square", "circle", "cross", "x", "triangle">>

(* The keys of _style_templates *)
_style_templates == {"raster", "polygon", "line", "point"}

(* cycle(seq): its k-th item, k counted from 1 *)
cycle(seq, k) == seq[((k - 1) % Len(seq)) + 1]

(* Contexts whose cycle of marks leaves out the last mark *)
_style_contexts_short_marks(k) ==
    <<cycle(_foregrounds, k), cycle(_backgrounds, k),
      cycle(SubSeq(_marks, 1, Len(_marks) - 1), k)>>

(* izip(cycle(_foregrounds), cycle(_backgrounds), cycle(_marks)): its *)
(* k-th item                                                          *)
_style_contexts(k) ==
    <<cycle(_foregrounds, k), cycle(_backgrounds, k), cycle(_marks, k)>>

(* The default styles of the layers get_sld_for is called on; None is a *)
(* layer without default style                                          *)
SldStyleNames == {None, "point", "line", "polygon", "raster", "roads"}

(* get_sld_for(layer): the name it looks up, and what it returns when *)
(* taken is the number of items already taken from _style_contexts:   *)
(* the template of the name, filled in with the layer name and the    *)
(* next item, or None                                                 *)
get_sld_for(default_style, layer_name, taken) ==
    LET name == IF default_style # None THEN default_style ELSE "point"
    IN  IF name \in _style_templates
        THEN [name |-> name, layer |-> layer_name,
              result |-> [template |-> name, name |-> layer_name,
                          context |-> _style_contexts(taken + 1)]]
        ELSE [name |-> name, layer |-> layer_name, result |-> NoDocument]

SldInit ==
    /\ SlurpIdle
    /\ CascadeIdle
    /\ AttrIdle
    /\ HelpersIdle

(* One call get_sld_for(layer), lines 153-167 *)
GetSldFor ==
    /\ style_contexts < MaxSldCalls
    /\ \E default_style \in SldStyleNames :
         LET r == get_sld_for(default_style, "layer", style_contexts)
         IN  /\ sld' = r
             /\ IF r.result # NoDocument
                THEN /\ style_contexts' = style_contexts + 1
                     /\ sld_log' = Append(sld_log, r.result.context)
                ELSE UNCHANGED <<style_contexts, sld_log>>
    /\ UNCHANGED <<slurp_vars, store_vars, cascade_vars, attr_vars, aggregable_call,
                   fixup_vars>>

SldNext == GetSldFor

SldSpec == SldInit /\ [][SldNext]_vars

(* C20, as stated: the item a generating call of get_sld_for takes is *)
(* the item the sixth generating call before it took, and the calls   *)
(* take at most 6 distinct items.                                     *)
C20_AsStated ==
    /\ \A k \in 1..Len(sld_log) : k + 6 <= Len(sld_log) => sld_log[k + 6] = sld_log[k]
    /\ Cardinality(Range(sld_log)) <= 6

(* C20, amended: the item a generating call of get_sld_for takes is the *)
(* item the thirtieth generating call before it took, the calls take at *)
(* most 30 distinct items, and the foreground and background of an item *)
(* are those of the sixth generating call before it.                    *)
C20_PalettePeriod ==
    /\ \A k \in 1..Len(sld_log) : k + 30 <= Len(sld_log) => sld_log[k + 30] = sld_log[k]
    /\ Cardinality(Range(sld_log)) <= 30
    /\ \A k \in 1..Len(sld_log) :
          k + 6 <= Len(sld_log) =>
              /\ sld_log[k + 6][1] = sld_log[k][1]
              /\ sld_log[k + 6][2] = sld_log[k][2]

(* The generating calls have gone through the items twice, and the *)
(* first thirty are distinct                                       *)
C20_Witness ==
    /\ Len(sld_log) = 60
    /\ Cardinality(Range(sld_log)) = 30
    /\ sld_log[31] = sld_log[1]
    /\ sld_log[7] # sld_log[1]

----------------------------------------------------------------------------
(* set_attributes: the display order. *)

(* C21: the rows a call of set_attributes created have a display order *)
(* greater than that of every row the layer held when they were        *)
(* created, so that no two rows of the layer have the same display     *)
(* order, whatever the calls before and their overwrite.               *)
C21_DisplayOrder ==
    LET rows == attribute_set(attribute_objects, layer_objects[1].name)
    IN  /\ \A la \in last_call.created :
              \A lb \in rows \ last_call.created :
                  la.display_order > lb.display_order
        /\ \A la, lb \in rows : la.display_order = lb.display_order => la = lb

----------------------------------------------------------------------------
(* fixup_style. *)

MaxLayers == 2

(* The resource fixup_style is called on *)
FixupResource == [workspace |-> <<"w", "1">>, name |-> <<"b">>]

(* The punctuation of the regular expression _punc, [\.:] *)
_punc == {".", ":"}

(* _punc.sub(repl, s) *)
PuncSub(repl, s) == [k \in 1..Len(s) |-> IF s[k] \in _punc THEN repl ELSE s[k]]

RECURSIVE Joined(_)
(* The string of a sequence of characters *)
Joined(s) == IF s = <<>> THEN "" ELSE Head(s) \o Joined(Tail(s))

(* _style_name(resource): the workspace and the name joined by ":", *)
(* with "_" for every "." and ":"                                   *)
_style_name(resource) ==
    Joined(PuncSub("_", resource.workspace \o <<":">> \o resource.name))

(* style.read() on the uploaded file *)
UploadedDocument == [template |-> "uploaded", name |-> None, context |-> <<>>]

(* What cat.create_style does: it returns None, it returns the style *)
(* it made, or it raises                                             *)
CreateStyleOutcomes == {"None", "Style", "raises"}

(* The calls: the style argument is None or an uploaded file, and the *)
(* layers of the resource have these default styles                   *)
FixupRequests ==
    [style : {None, "file"}, layers : BoundedSeq(SldStyleNames, MaxLayers)]

FixupInit ==
    /\ SlurpIdle
    /\ CascadeIdle
    /\ AttrIdle
    /\ aggregable_call = NoAggregableCall
    /\ style_contexts = 0
    /\ sld_log = <<>>
    /\ sld = NoSld
    /\ fx_request \in FixupRequests
    /\ fx_pc = "start"
    /\ gs_layers = [k \in 1..Len(fx_request.layers) |->
                       [default_style |-> fx_request.layers[k], sld |-> NoDocument]]
    /\ style = fx_request.style
    /\ lyr_index = 1
    /\ created_styles = <<>>

FixupUnchanged ==
    UNCHANGED <<slurp_vars, store_vars, cascade_vars, attr_vars, aggregable_call,
                fx_request>>

(* Lines 170-172: the layers of the resource *)
FixupGetLayers ==
    /\ fx_pc = "start"
    /\ fx_pc' = IF gs_layers = <<>> THEN "returned" ELSE "loop"
    /\ UNCHANGED <<style_vars, gs_layers, style, lyr_index, created_styles>>
    /\ FixupUnchanged

(* style = cat.create_style(name, sld): what the name style is bound to *)
(* after line 182                                                       *)
StyleAfterCreate(returned, current) == IF returned = "None" THEN None ELSE returned

(* Lines 173-186: one pass of the loop over the layers *)
FixupLayer ==
    /\ fx_pc = "loop"
    /\ \E outcome \in CreateStyleOutcomes :
         LET lyr == gs_layers[lyr_index]
             name == _style_name(FixupResource)
             generated == get_sld_for(lyr.default_style, "layer", style_contexts)
             body == IF style = None THEN generated.result ELSE UploadedDocument
             next == IF lyr_index < Len(gs_layers) THEN "loop" ELSE "returned"
         IN  IF lyr.default_style = None
             THEN /\ fx_pc' = "raised"
                  /\ UNCHANGED <<style_vars, gs_layers, style, lyr_index, created_styles>>
             ELSE IF lyr.default_style \notin _style_templates
             THEN /\ fx_pc' = next
                  /\ lyr_index' = lyr_index + 1
                  /\ UNCHANGED <<style_vars, gs_layers, style, created_styles>>
             ELSE IF style \notin {None, "file"}
             THEN /\ fx_pc' = "raised"
                  /\ UNCHANGED <<style_vars, gs_layers, style, lyr_index, created_styles>>
             ELSE /\ IF style = None
                     THEN /\ style_contexts' = style_contexts + 1
                          /\ sld_log' = Append(sld_log, generated.result.context)
                          /\ sld' = generated
                     ELSE UNCHANGED style_vars
                  /\ IF outcome = "raises"
                     THEN /\ fx_pc' = "raised"
                          /\ UNCHANGED <<gs_layers, style, lyr_index, created_styles>>
                     ELSE /\ created_styles' =
                                Append(created_styles, [name |-> name, sld |-> body])
                          /\ style' = StyleAfterCreate(outcome, style)
                          /\ gs_layers' =
                                [gs_layers EXCEPT
                                    ![lyr_index] = [default_style |-> name, sld |-> body]]
                          /\ lyr_index' = lyr_index + 1
                          /\ fx_pc' = next
    /\ FixupUnchanged

FixupNext ==
    \/ FixupGetLayers
    \/ FixupLayer

FixupSpec == FixupInit /\ [][FixupNext]_vars

(* A document get_sld_for generates from the template of a name *)
GeneratedFrom(doc, name) ==
    /\ doc.template = name
    /\ doc.name = "layer"
    /\ doc.context \in {_style_contexts(k) : k \in 1..(MaxLayers + 1)}

(* C22: when fixup_style has returned, every layer of the resource    *)
(* whose default style was point, line, polygon or raster has a new   *)
(* default style whose body is the uploaded document when the caller  *)
(* passed one and a generated document otherwise, and every other     *)
(* layer has the default style it had.                                *)
C22_StyleBody ==
    fx_pc = "returned" =>
        \A k \in 1..Len(gs_layers) :
            IF fx_request.layers[k] \in _default_style_names
            THEN /\ gs_layers[k].default_style = _style_name(FixupResource)
                 /\ IF fx_request.style # None
                    THEN gs_layers[k].sld = UploadedDocument
                    ELSE GeneratedFrom(gs_layers[k].sld, fx_request.layers[k])
            ELSE gs_layers[k] = [default_style |-> fx_request.layers[k],
                                 sld |-> NoDocument]

----------------------------------------------------------------------------
(* gs_slurp: the two passes of one run. *)

(* The names the upsert pass reported as created or updated *)
Upserted ==
    {output.layers[k].name :
        k \in {j \in 1..Len(output.layers) :
                  output.layers[j].status \in {"created", "updated"}}}

(* C23: in a run with remove_deleted, a Layer row that the upsert pass *)
(* reported as created or updated is not deleted by the remove_deleted *)
(* pass of that run.                                                   *)
C23_UpsertedNotDeleted ==
    opts.remove_deleted =>
        /\ \A name \in Upserted : HasLayer(layer_objects, name)
        /\ \A k \in Succeeded : output.deleted_layers[k].name \notin Upserted

=============================================================================
